---- MODULE Spec2Model ----
(***************************************************************************)
(* State-machine model of the generational search controller of            *)
(* aiida-LordCapulet (GlobalConstrainedSearchWorkChain), together with the *)
(* two child workchains it drives (AFMScanWorkChain,                       *)
(* ConstrainedScanWorkChain) and the proposal calcfunction                 *)
(* (aiida_propose_occ_matrices_from_results / propose_new_constraints).    *)
(*                                                                         *)
(* The AiiDA database is the sequence `nodes`: the pk of a node is its     *)
(* index.  A workchain step runs atomically; a step that follows a         *)
(* ToContext / to_context waits for the awaited processes to terminate.    *)
(* An exception raised inside a step puts the workchain in the "excepted"  *)
(* process state.                                                          *)
(*                                                                         *)
(* The occupation data itself is not represented: every stored occupation  *)
(* output is taken to be a well-formed dictionary (same sites, 5x5         *)
(* matrices).  The generator then fails for the reasons its control flow   *)
(* shows (a pk that cannot be loaded, a seed list without a second entry,  *)
(* N < 1, in read mode a missing or too short source) and, in random mode, *)
(* for a reason that depends on the data and on the random draws: a site   *)
(* whose average trace rounds to 0 gets the target -1 when the random      *)
(* variation is -1, and the diagonal built for it does not fit the block   *)
(* (ValueError).  Both outcomes of a random-mode call are therefore        *)
(* possible.  A proposal is identified by the pk of the Dict node it was   *)
(* stored in and by the index of the iteration (in read mode, of the       *)
(* source entry) that produced it.  The PwCalculation nodes of the AFM     *)
(* scan are not kept in `nodes`: no step reads their pks.                  *)
(***************************************************************************)
EXTENDS Integers, Sequences, FiniteSets, TLC

VARIABLES
    inputs,          \* the workchain inputs (Nmax, N, proposal_*, afm.tm_atoms)
    pc,              \* next outline step of GlobalConstrainedSearchWorkChain, or its terminal process state
    exit_status,     \* exit status of the workchain, 0 until an exit code is returned
    ctx,             \* self.ctx of GlobalConstrainedSearchWorkChain
    afm_wc,          \* the AFMScanWorkChain child (self.ctx.afm_wc)
    constrained_wc,  \* the current ConstrainedScanWorkChain child (self.ctx.constrained_wc)
    nodes,           \* the database: nodes[pk] describes the node with that pk
    calls,           \* the calls of aiida_propose_occ_matrices_from_results, in order
    submitted,       \* the ConstrainedScanWorkChain submissions, in order
    outputs          \* the outputs attached by gather_final_results

vars == <<inputs, pc, exit_status, ctx, afm_wc, constrained_wc, nodes, calls, submitted, outputs>>

\* ---------------------------------------------------------------- bounds
MaxNmax == 7
MaxN == 3
MaxTmAtoms == 1
MaxReadLen == 3

\* ---------------------------------------------------------------- constants of the code
\* the sentinel stored for a calculation without occupation output
FailedPk == -1
ERROR_AFM_SEARCH_FAILED == 400
ERROR_CONSTRAINED_SCAN_FAILED == 401
ERROR_PROPOSAL_FAILED == 402

\* ---------------------------------------------------------------- helpers
Min(a, b) == IF a < b THEN a ELSE b

RECURSIVE Pow2(_)
Pow2(n) == IF n = 0 THEN 1 ELSE 2 * Pow2(n - 1)

\* Python's list slice l[:n] for n >= 0
\* a slice that keeps the last n entries instead of the first n
TakeLast(s, n) == SubSeq(s, Len(s) - Min(n, Len(s)) + 1, Len(s))

\* the Python slice s[:n] for n >= 0
Take(s, n) == SubSeq(s, 1, Min(n, Len(s)))

Range(s) == {s[i] : i \in 1..Len(s)}

RECURSIVE SumSeq(_)
SumSeq(s) == IF s = <<>> THEN 0 ELSE s[1] + SumSeq(Tail(s))

\* ---------------------------------------------------------------- the database
\* load_node(pk): raises NotExistent unless a node with that pk is stored
NodeExists(db, pk) == pk \in 1..Len(db)

OccNode(g, i) == [cls |-> "Dict", role |-> "occupations", gen |-> g, idx |-> i]
CalcNode(g, i) == [cls |-> "CalcJob", role |-> "calculation", gen |-> g, idx |-> i]
ProposalNode(g, i) == [cls |-> "Dict", role |-> "proposal", gen |-> g, idx |-> i]

\* ---------------------------------------------------------------- AFMScanWorkChain
\* prepare_configs: one magnetic configuration per sign pattern of the tm atoms
NumMagneticConfigs(ntm) == Pow2(ntm)

\* gather_results: the pk of the occupation output of every calculation of
\* self.ctx.calcs, in submission order, and -1 for a calculation without
\* output_atomic_occupations
AFMGatheredMatrices(calcs) ==
    [i \in 1..Len(calcs) |->
        IF calcs[i].state = "finished" THEN calcs[i].occupations ELSE FailedPk]

\* ---------------------------------------------------------------- the proposal generator
\* The generator operators give the set of the outcomes a call can have.
\* the read-mode branch of propose_new_constraints
ReadMode(N, kwargs) ==
    IF ~kwargs.has_readfile THEN {[status |-> "ValueError", entries |-> <<>>]}
    ELSE IF kwargs.readfile_len < N THEN {[status |-> "ValueError", entries |-> <<>>]}
    ELSE {[status |-> "ok", entries |-> [i \in 1..N |-> i - 1]]}

\* propose_random_constraints: one proposal per iteration in range(N), or
\* the ValueError of _create_random_diagonal_matrices when the target of a
\* site is -1 (average trace rounding to 0, random variation -1)
propose_random_constraints(occ_matr_list, N) ==
    {[status |-> "ok", entries |-> [i \in 1..N |-> i - 1]],
     [status |-> "ValueError", entries |-> <<>>]}

\* propose_new_constraints: occ_matr_list[1] is read first, then N is
\* checked, then the mode is dispatched
propose_new_constraints(occ_matr_list, N, mode, kwargs) ==
    IF Len(occ_matr_list) < 2 THEN {[status |-> "IndexError", entries |-> <<>>]}
    ELSE IF N < 1 THEN {[status |-> "ValueError", entries |-> <<>>]}
    ELSE IF mode = "random" THEN propose_random_constraints(occ_matr_list, N)
    ELSE ReadMode(N, kwargs)

\* aiida_propose_occ_matrices_from_results: load every pk of pk_list, keep
\* the Dict nodes, call propose_new_constraints
aiida_propose_occ_matrices_from_results(db, pk_list, N, mode, kwargs) ==
    IF \E i \in 1..Len(pk_list) : ~NodeExists(db, pk_list[i])
    THEN {[status |-> "NotExistent", entries |-> <<>>]}
    ELSE LET IsDict(pk) == db[pk].cls = "Dict"
             occ_matrices == SelectSeq(pk_list, IsDict)
         IN propose_new_constraints(occ_matrices, N, mode, kwargs)

\* the Dict nodes stored for the proposals of one call, and the dictionaries
\* loaded back from them (each identified by the pk of its node)
StoredProposals(entries, g) == [i \in 1..Len(entries) |-> ProposalNode(g, entries[i])]
LoadedProposals(entries, base) == [i \in 1..Len(entries) |-> [pk |-> base + i, entry |-> entries[i]]]

\* ---------------------------------------------------------------- the controller
CtxUnset ==
    [initialised |-> FALSE, N_cumulative |-> 0, generation |-> 0,
     all_matrices_pks |-> <<>>, result_matrices_pks |-> <<>>,
     all_calculation_pks |-> <<>>, generation_results |-> <<>>,
     current_proposals |-> <<>>]

NoChild == [state |-> "none", inputs |-> <<>>, calcs |-> <<>>,
            all_occupation_matrices |-> <<>>, calculation_pks |-> <<>>]

ProposalKwargs ==
    {[has_readfile |-> FALSE, readfile_len |-> 0]}
    \cup {[has_readfile |-> TRUE, readfile_len |-> l] : l \in 0..MaxReadLen}

Inputs ==
    {[Nmax |-> nmax, N |-> n, proposal_mode |-> m, proposal_holistic |-> h,
      proposal_kwargs |-> kw, n_tm_atoms |-> t] :
        nmax \in 1..MaxNmax, n \in 0..MaxN, m \in {"random", "read"},
        h \in BOOLEAN, kw \in ProposalKwargs, t \in 0..MaxTmAtoms}

Init ==
    /\ inputs \in {i \in Inputs : i.proposal_mode = "random" => ~i.proposal_kwargs.has_readfile}
    /\ pc = "run_initial_afm_search"
    /\ exit_status = 0
    /\ ctx = CtxUnset
    /\ afm_wc = NoChild
    /\ constrained_wc = NoChild
    /\ nodes = <<>>
    /\ calls = <<>>
    /\ submitted = <<>>
    /\ outputs = [attached |-> FALSE, all_afm_matrices |-> <<>>,
                  all_constrained_matrices |-> <<>>,
                  all_calculation_pks |-> <<>>, generation_summary |-> <<>>]

\* run_initial_afm_search: submit the AFM scan and wait for it
run_initial_afm_search ==
    /\ pc = "run_initial_afm_search"
    /\ afm_wc' = [NoChild EXCEPT !.state = "created"]
    /\ pc' = "process_afm_results"
    /\ UNCHANGED <<inputs, exit_status, ctx, constrained_wc, nodes, calls, submitted, outputs>>

\* AFMScanWorkChain.prepare_configs: the magnetic configurations
AFMPrepareConfigs ==
    /\ afm_wc.state = "created"
    /\ afm_wc' = [afm_wc EXCEPT !.state = "prepared",
                                !.inputs = [i \in 1..NumMagneticConfigs(inputs.n_tm_atoms) |-> i - 1]]
    /\ UNCHANGED <<inputs, pc, exit_status, ctx, constrained_wc, nodes, calls, submitted, outputs>>

\* AFMScanWorkChain.run_all: one PwCalculation per configuration, submitted
\* in order; the step after run_all waits for all of them
AFMRunAll ==
    /\ afm_wc.state = "prepared"
    /\ afm_wc' = [afm_wc EXCEPT
                     !.state = "running",
                     !.calcs = [i \in 1..Len(afm_wc.inputs) |->
                                   [config |-> afm_wc.inputs[i], state |-> "running",
                                    occupations |-> FailedPk]]]
    /\ UNCHANGED <<inputs, pc, exit_status, ctx, constrained_wc, nodes, calls, submitted, outputs>>

\* one calculation of the AFM scan terminates, with or without
\* output_atomic_occupations; an output node is stored when it does
AFMCalcFinishes(i) ==
    /\ afm_wc.state = "running"
    /\ i \in 1..Len(afm_wc.calcs)
    /\ afm_wc.calcs[i].state = "running"
    /\ \/ /\ nodes' = Append(nodes, OccNode(0, i - 1))
          /\ afm_wc' = [afm_wc EXCEPT !.calcs[i].state = "finished",
                                      !.calcs[i].occupations = Len(nodes) + 1]
       \/ /\ nodes' = nodes
          /\ afm_wc' = [afm_wc EXCEPT !.calcs[i].state = "failed"]
    /\ UNCHANGED <<inputs, pc, exit_status, ctx, constrained_wc, calls, submitted, outputs>>

\* AFMScanWorkChain.gather_results, once every calculation has terminated
AFMGatherResults ==
    /\ afm_wc.state = "running"
    /\ \A i \in 1..Len(afm_wc.calcs) : afm_wc.calcs[i].state # "running"
    /\ afm_wc' = [afm_wc EXCEPT !.state = "finished",
                                !.all_occupation_matrices = AFMGatheredMatrices(afm_wc.calcs)]
    /\ UNCHANGED <<inputs, pc, exit_status, ctx, constrained_wc, nodes, calls, submitted, outputs>>

\* AFMScanWorkChain does not finish: a step raises (run_all when the pseudo
\* family group is missing) or the process is killed.  It has no outputs;
\* the output nodes its calculations stored before stay in the database.
AFMScanExcepts ==
    /\ afm_wc.state \in {"created", "prepared", "running"}
    /\ afm_wc' = [afm_wc EXCEPT !.state = "excepted"]
    /\ UNCHANGED <<inputs, pc, exit_status, ctx, constrained_wc, nodes, calls, submitted, outputs>>

\* a test that takes any terminated child for a successful one
is_finished_ok_any_end(wc) == wc.state \in {"finished", "excepted"}

is_finished_ok(wc) == wc.state = "finished"
Terminated(wc) == wc.state \in {"finished", "excepted"}

\* the record of one call of the calcfunction
CallRecord(g, pk_list, N, res) ==
    [generation |-> g, pk_list |-> pk_list, N |-> N, status |-> res.status,
     n_proposals |-> Len(res.entries)]

\* process_afm_results
process_afm_results ==
    /\ pc = "process_afm_results"
    /\ Terminated(afm_wc)
    /\ IF ~is_finished_ok(afm_wc)
       THEN /\ pc' = "finished"
            /\ exit_status' = ERROR_AFM_SEARCH_FAILED
            /\ UNCHANGED <<ctx, nodes, calls>>
       ELSE LET afm_matrices == afm_wc.all_occupation_matrices
                ctx1 == [initialised |-> TRUE, N_cumulative |-> 0, generation |-> 0,
                         all_matrices_pks |-> afm_matrices,
                         result_matrices_pks |-> afm_matrices,
                         all_calculation_pks |-> <<>>,
                         generation_results |->
                             (0 :> [type |-> "afm", n_calculations |-> Len(afm_matrices),
                                    matrix_pks |-> afm_matrices]),
                         current_proposals |-> <<>>]
            IN \E res \in aiida_propose_occ_matrices_from_results(
                              nodes, afm_matrices, inputs.N, inputs.proposal_mode,
                              inputs.proposal_kwargs) :
               /\ calls' = Append(calls, CallRecord(0, afm_matrices, inputs.N, res))
               /\ exit_status' = exit_status
               /\ IF res.status = "ok"
                  THEN /\ nodes' = nodes \o StoredProposals(res.entries, 0)
                       /\ ctx' = [ctx1 EXCEPT !.current_proposals =
                                      LoadedProposals(res.entries, Len(nodes))]
                       /\ pc' = "should_continue_search"
                  ELSE /\ nodes' = nodes
                       /\ ctx' = ctx1
                       /\ pc' = "excepted"
    /\ UNCHANGED <<inputs, afm_wc, constrained_wc, submitted, outputs>>

\* a loop condition that stops one evaluation short of the budget
ContinueConditionStopsEarly(N_cumulative, Nmax) == N_cumulative + 1 < Nmax

\* should_continue_search: the condition of the while_ loop
ContinueCondition(N_cumulative, Nmax) == N_cumulative < Nmax

should_continue_search ==
    /\ pc = "should_continue_search"
    /\ pc' = IF ContinueCondition(ctx.N_cumulative, inputs.Nmax)
             THEN "run_constrained_batch" ELSE "gather_final_results"
    /\ UNCHANGED <<inputs, exit_status, ctx, afm_wc, constrained_wc, nodes, calls, submitted, outputs>>

\* a batch of one proposal whatever N is
n_proposals_single(N, Nmax, N_cumulative) == Min(1, Nmax - N_cumulative)

\* a batch size that ignores the remaining budget
n_proposals_uncapped(N, Nmax, N_cumulative) == N

\* the size of the batch run_constrained_batch submits
n_proposals(N, Nmax, N_cumulative) == Min(N, Nmax - N_cumulative)

\* run_constrained_batch: submit the first n_proposals current proposals
run_constrained_batch ==
    /\ pc = "run_constrained_batch"
    /\ LET n == n_proposals(inputs.N, inputs.Nmax, ctx.N_cumulative)
           current_proposals == Take(ctx.current_proposals, n)
       IN /\ ctx' = [ctx EXCEPT !.generation = ctx.generation + 1]
          /\ constrained_wc' = [NoChild EXCEPT !.state = "created",
                                               !.inputs = current_proposals]
          /\ submitted' = Append(submitted,
                                 [generation |-> ctx.generation + 1,
                                  occupation_matrices_list |-> current_proposals])
    /\ pc' = "process_constrained_results"
    /\ UNCHANGED <<inputs, exit_status, afm_wc, nodes, calls, outputs>>

\* ---------------------------------------------------------------- ConstrainedScanWorkChain
\* prepare_calculations: the target matrices are read from the input list
ScanPrepareCalculations ==
    /\ constrained_wc.state = "created"
    /\ constrained_wc' = [constrained_wc EXCEPT !.state = "prepared"]
    /\ UNCHANGED <<inputs, pc, exit_status, ctx, afm_wc, nodes, calls, submitted, outputs>>

\* run_all: one ConstrainedPWCalculation per target matrix, submitted in
\* order; the step after run_all waits for all of them
ScanRunAll ==
    /\ constrained_wc.state = "prepared"
    /\ LET n == Len(constrained_wc.inputs)
       IN /\ nodes' = nodes \o [i \in 1..n |-> CalcNode(ctx.generation, i - 1)]
          /\ constrained_wc' =
                [constrained_wc EXCEPT
                    !.state = "running",
                    !.calcs = [i \in 1..n |-> [pk |-> Len(nodes) + i, target |-> constrained_wc.inputs[i],
                                               state |-> "running", occupations |-> FailedPk]]]
    /\ UNCHANGED <<inputs, pc, exit_status, ctx, afm_wc, calls, submitted, outputs>>

\* one calculation terminates, with or without output_atomic_occupations
CalcFinishes(i) ==
    /\ constrained_wc.state = "running"
    /\ i \in 1..Len(constrained_wc.calcs)
    /\ constrained_wc.calcs[i].state = "running"
    /\ \/ /\ nodes' = Append(nodes, OccNode(ctx.generation, i - 1))
          /\ constrained_wc' = [constrained_wc EXCEPT !.calcs[i].state = "finished",
                                                      !.calcs[i].occupations = Len(nodes) + 1]
       \/ /\ nodes' = nodes
          /\ constrained_wc' = [constrained_wc EXCEPT !.calcs[i].state = "failed"]
    /\ UNCHANGED <<inputs, pc, exit_status, ctx, afm_wc, calls, submitted, outputs>>

\* a gathering loop that appends nothing for a calculation without output
GatheredMatricesSkipFailed(calcs) ==
    LET Done(c) == c.state = "finished"
        ok == SelectSeq(calcs, Done)
    IN [i \in 1..Len(ok) |-> ok[i].occupations]

\* the matrices list of gather_results: one entry per calculation in
\* self.ctx.calcs, the output's pk or the sentinel
GatheredMatrices(calcs) ==
    [i \in 1..Len(calcs) |->
        IF calcs[i].state = "finished" THEN calcs[i].occupations ELSE FailedPk]

\* the calculation_pks list of gather_results
GatheredCalculationPks(calcs) == [i \in 1..Len(calcs) |-> calcs[i].pk]

\* ConstrainedScanWorkChain does not finish: a step raises (run_all when the
\* pseudo family group is missing) or the process is killed.  It has no
\* outputs; the nodes stored before stay in the database.
ScanExcepts ==
    /\ constrained_wc.state \in {"created", "prepared", "running"}
    /\ constrained_wc' = [constrained_wc EXCEPT !.state = "excepted"]
    /\ UNCHANGED <<inputs, pc, exit_status, ctx, afm_wc, nodes, calls, submitted, outputs>>

\* gather_results of ConstrainedScanWorkChain
ScanGatherResults ==
    /\ constrained_wc.state = "running"
    /\ \A i \in 1..Len(constrained_wc.calcs) : constrained_wc.calcs[i].state # "running"
    /\ constrained_wc' =
          [constrained_wc EXCEPT
              !.state = "finished",
              !.all_occupation_matrices = GatheredMatrices(constrained_wc.calcs),
              !.calculation_pks = GatheredCalculationPks(constrained_wc.calcs)]
    /\ UNCHANGED <<inputs, pc, exit_status, ctx, afm_wc, nodes, calls, submitted, outputs>>

\* ---------------------------------------------------------------- the controller, continued
\* successful_matrices: the entries that are not the sentinel, in order
SuccessfulMatrices(matrix_pks) ==
    LET Ok(pk) == pk # FailedPk IN SelectSeq(matrix_pks, Ok)

\* a count of failures that counts every entry
FailedCountEveryEntry(matrix_pks) == Len(matrix_pks)

FailedCount(matrix_pks) ==
    LET Bad(pk) == pk = FailedPk IN Len(SelectSeq(matrix_pks, Bad))

\* the test for a generation in which every calculation failed
AllFailedNeverTrue(successful_matrices) == FALSE

AllFailed(successful_matrices) == Len(successful_matrices) = 0

\* a step that never proposes again and keeps the proposals it has
NeedsNewProposalsNever(N_cumulative, n_calculations, Nmax) == FALSE

\* whether process_constrained_results proposes matrices for a next iteration
NeedsNewProposals(N_cumulative, n_calculations, Nmax) ==
    N_cumulative + n_calculations < Nmax

\* seed pools that ignore the holistic flag
MatricesForProposalAlwaysAll(holistic, result_matrices_pks, successful_matrices) ==
    result_matrices_pks

MatricesForProposalAlwaysLast(holistic, result_matrices_pks, successful_matrices) ==
    successful_matrices

\* the seed pool handed to the generator, by holistic mode
MatricesForProposal(holistic, result_matrices_pks, successful_matrices) ==
    IF holistic THEN result_matrices_pks ELSE successful_matrices

\* the record process_constrained_results stores for a generation
GenerationRecord(matrix_pks, calculation_pks) ==
    [type |-> "constrained",
     n_calculations |-> Len(calculation_pks),
     n_successful |-> Len(SuccessfulMatrices(matrix_pks)),
     n_failed |-> FailedCount(matrix_pks),
     matrix_pks |-> matrix_pks,
     calculation_pks |-> calculation_pks]

\* the outputs of a child exist once its gather_results has run
HasOutputs(wc) == wc.state = "finished"

\* process_constrained_results.  Reading the outputs of a child that did not
\* finish raises NotExistentAttributeError.
process_constrained_results ==
    /\ pc = "process_constrained_results"
    /\ Terminated(constrained_wc)
    /\ LET constrained_matrices == constrained_wc.all_occupation_matrices
           calculation_pks == constrained_wc.calculation_pks
           successful_matrices == SuccessfulMatrices(constrained_matrices)
       IN IF ~HasOutputs(constrained_wc)
          THEN /\ pc' = "excepted"
               /\ UNCHANGED <<exit_status, ctx, nodes, calls>>
          ELSE IF AllFailed(successful_matrices)
          THEN /\ pc' = "finished"
               /\ exit_status' = ERROR_CONSTRAINED_SCAN_FAILED
               /\ UNCHANGED <<ctx, nodes, calls>>
          ELSE LET ctx1 == [ctx EXCEPT
                               !.generation_results =
                                   (ctx.generation :> GenerationRecord(constrained_matrices, calculation_pks))
                                   @@ ctx.generation_results,
                               !.all_matrices_pks = @ \o constrained_matrices,
                               !.result_matrices_pks = @ \o successful_matrices,
                               !.all_calculation_pks = @ \o calculation_pks]
               IN /\ exit_status' = exit_status
                  /\ IF NeedsNewProposals(ctx.N_cumulative, Len(calculation_pks), inputs.Nmax)
                     THEN LET matrices_for_proposal ==
                                  MatricesForProposal(inputs.proposal_holistic,
                                                      ctx1.result_matrices_pks, successful_matrices)
                          IN \E res \in aiida_propose_occ_matrices_from_results(
                                            nodes, matrices_for_proposal, inputs.N,
                                            inputs.proposal_mode, inputs.proposal_kwargs) :
                             /\ calls' = Append(calls, CallRecord(ctx.generation, matrices_for_proposal,
                                                                  inputs.N, res))
                             /\ IF res.status = "ok"
                                THEN /\ nodes' = nodes \o StoredProposals(res.entries, ctx.generation)
                                     /\ ctx' = [ctx1 EXCEPT !.current_proposals =
                                                    LoadedProposals(res.entries, Len(nodes))]
                                     /\ pc' = "update_counters"
                                ELSE /\ nodes' = nodes
                                     /\ ctx' = ctx1
                                     /\ pc' = "excepted"
                     ELSE /\ ctx' = ctx1
                          /\ pc' = "update_counters"
                          /\ UNCHANGED <<nodes, calls>>
    /\ UNCHANGED <<inputs, afm_wc, constrained_wc, submitted, outputs>>

\* what update_counters adds to N_cumulative
CounterIncrement(last_generation) == last_generation.n_calculations

\* update_counters
update_counters ==
    /\ pc = "update_counters"
    /\ LET last_generation == ctx.generation_results[ctx.generation]
       IN ctx' = [ctx EXCEPT !.N_cumulative = @ + CounterIncrement(last_generation)]
    /\ pc' = "should_continue_search"
    /\ UNCHANGED <<inputs, exit_status, afm_wc, constrained_wc, nodes, calls, submitted, outputs>>

\* the summary output: the generation history under the keys f"Generation {k}"
GenerationSummary(generation_results) ==
    [key \in {<<"Generation", k>> : k \in DOMAIN generation_results} |->
        generation_results[key[2]]]

\* gather_final_results: attach the outputs; the outline is over
gather_final_results ==
    /\ pc = "gather_final_results"
    /\ outputs' = [attached |-> TRUE,
                   all_afm_matrices |-> afm_wc.all_occupation_matrices,
                   all_constrained_matrices |-> ctx.all_matrices_pks,
                   all_calculation_pks |-> ctx.all_calculation_pks,
                   generation_summary |-> GenerationSummary(ctx.generation_results)]
    /\ pc' = "finished"
    /\ UNCHANGED <<inputs, exit_status, ctx, afm_wc, constrained_wc, nodes, calls, submitted>>

Next ==
    \/ run_initial_afm_search
    \/ AFMPrepareConfigs
    \/ AFMRunAll
    \/ \E i \in 1..NumMagneticConfigs(MaxTmAtoms) : AFMCalcFinishes(i)
    \/ AFMGatherResults
    \/ AFMScanExcepts
    \/ process_afm_results
    \/ should_continue_search
    \/ run_constrained_batch
    \/ ScanPrepareCalculations
    \/ ScanRunAll
    \/ \E i \in 1..MaxN : CalcFinishes(i)
    \/ ScanGatherResults
    \/ ScanExcepts
    \/ process_constrained_results
    \/ update_counters
    \/ gather_final_results

Spec == Init /\ [][Next]_vars

\* ---------------------------------------------------------------- properties
\* the sizes of the submitted batches, in order
BatchSizes == [k \in 1..Len(submitted) |-> Len(submitted[k].occupation_matrices_list)]

\* N repeated floor(Nmax/N) times, then Nmax mod N when it is not zero
ExpectedSizes(Nmax, N) ==
    [k \in 1..((Nmax \div N) + (IF Nmax % N = 0 THEN 0 ELSE 1)) |->
        IF k <= Nmax \div N THEN N ELSE Nmax % N]

IsPrefix(s, t) == Len(s) <= Len(t) /\ \A i \in 1..Len(s) : s[i] = t[i]

\* the constrained generations recorded in the generation history
RecordedGenerations == (DOMAIN ctx.generation_results) \ {0}

\* the pks of the occupation outputs of generation g, by calculation index
OccupationsOf(g) ==
    {pk \in 1..Len(nodes) : nodes[pk].role = "occupations" /\ nodes[pk].gen = g}

\* C1: the cumulative number of evaluated proposals never exceeds Nmax, and
\* every constrained batch holds exactly min(N, Nmax - N_cumulative)
\* proposals, N_cumulative being the number of proposals of the batches
\* before it; the calculations run for it are as many.
C1_BudgetNeverOvershot ==
    /\ ctx.N_cumulative <= inputs.Nmax
    /\ SumSeq(BatchSizes) <= inputs.Nmax
    /\ \A k \in 1..Len(submitted) :
          BatchSizes[k] = Min(inputs.N, inputs.Nmax - SumSeq(SubSeq(BatchSizes, 1, k - 1)))
    /\ pc \in {"process_constrained_results", "update_counters"} =>
          /\ BatchSizes[Len(submitted)] = Min(inputs.N, inputs.Nmax - ctx.N_cumulative)
          /\ constrained_wc.state \in {"running", "finished"} =>
                Len(constrained_wc.calcs) = BatchSizes[Len(submitted)]

\* C1 witness: the budget is used up by a last batch smaller than N
C1_Witness ==
    /\ pc = "should_continue_search"
    /\ ctx.N_cumulative = inputs.Nmax
    /\ Len(submitted) >= 2
    /\ BatchSizes[Len(submitted)] < inputs.N
    /\ BatchSizes[Len(submitted)] = inputs.Nmax % inputs.N

\* C2: in a run that is over, that submitted batches and in which no
\* generation was without a success, the batch sizes are N repeated
\* floor(Nmax/N) times followed by the non-zero remainder, and sum to Nmax.
C2_BatchSizeSequence ==
    (/\ pc \in {"finished", "excepted"}
     /\ Len(submitted) >= 1
     /\ exit_status # ERROR_CONSTRAINED_SCAN_FAILED)
    => /\ BatchSizes = ExpectedSizes(inputs.Nmax, inputs.N)
       /\ SumSeq(BatchSizes) = inputs.Nmax

\* C3: a generation whose results are all the failure sentinel ends the run
\* with ERROR_CONSTRAINED_SCAN_FAILED, and from then on no proposal is
\* generated and no batch is submitted.
C3_AllFailedIsTerminal ==
    /\ [][(/\ pc = "process_constrained_results"
           /\ constrained_wc.state = "finished"
           /\ \A i \in 1..Len(constrained_wc.all_occupation_matrices) :
                 constrained_wc.all_occupation_matrices[i] = FailedPk)
          => (/\ pc' = "finished"
              /\ exit_status' = ERROR_CONSTRAINED_SCAN_FAILED
              /\ calls' = calls /\ submitted' = submitted /\ nodes' = nodes)]_vars
    /\ [][exit_status = ERROR_CONSTRAINED_SCAN_FAILED
          => (/\ exit_status' = exit_status /\ pc' = pc
              /\ calls' = calls /\ submitted' = submitted /\ nodes' = nodes)]_vars

\* C3 witness: a second generation of several calculations failed entirely
C3_Witness ==
    /\ exit_status = ERROR_CONSTRAINED_SCAN_FAILED
    /\ pc = "finished"
    /\ ctx.generation = 2
    /\ Len(constrained_wc.all_occupation_matrices) >= 2
    /\ OccupationsOf(2) = {}

\* the number of proposals evaluated up to and including generation g
EvaluatedThrough(g) == SumSeq(SubSeq(BatchSizes, 1, g))

\* the calls of the generator made after constrained generation g
CallsAfter(g) == {k \in 1..Len(calls) : calls[k].generation = g}

\* s lists exactly the pks of the set S, ordered by generation and then by
\* calculation index
ListsInOrder(s, S) ==
    /\ Range(s) = S
    /\ Len(s) = Cardinality(S)
    /\ \A i, j \in 1..Len(s) :
          i < j => \/ nodes[s[i]].gen < nodes[s[j]].gen
                   \/ /\ nodes[s[i]].gen = nodes[s[j]].gen
                      /\ nodes[s[i]].idx < nodes[s[j]].idx

\* C4: a recorded generation with at least one success and some failures
\* after which budget remains is followed by a successful call of the generator, seeded from
\* results that include the generation's successes, and the run goes on.
C4_PartialFailureNotTerminal ==
    \A g \in RecordedGenerations :
        (/\ ctx.generation_results[g].n_successful >= 1
         /\ ctx.generation_results[g].n_failed >= 1
         /\ EvaluatedThrough(g) < inputs.Nmax)
        => /\ \E k \in CallsAfter(g) :
                 /\ calls[k].status = "ok"
                 /\ calls[k].n_proposals >= 1
                 /\ OccupationsOf(g) \subseteq Range(calls[k].pk_list)
           /\ pc # "excepted"

\* C5: in Markovian mode the seed pool of the call made after generation g
\* lists exactly the occupation outputs of generation g, by calculation
\* index: nothing of an earlier generation or of the AFM round, no sentinel.
C5_MarkovianSeedPool ==
    ~inputs.proposal_holistic =>
        \A k \in 1..Len(calls) :
            calls[k].generation >= 1 =>
                ListsInOrder(calls[k].pk_list, OccupationsOf(calls[k].generation))

\* C5 witness: after a second generation with a failed calculation the pool
\* is smaller than the number of successes so far
C5_Witness ==
    /\ ~inputs.proposal_holistic
    /\ \E k \in 1..Len(calls) :
          /\ calls[k].generation = 2
          /\ calls[k].status = "ok"
          /\ Len(calls[k].pk_list) = 2
          /\ Cardinality(OccupationsOf(1)) = 3
          /\ ctx.generation_results[2].n_failed = 1

\* C6: in holistic mode the seed pool of the call made after generation g
\* lists exactly the occupation outputs of the AFM round and of the
\* generations 1..g, round after round.
C6_HolisticSeedPool ==
    inputs.proposal_holistic =>
        \A k \in 1..Len(calls) :
            calls[k].generation >= 1 =>
                ListsInOrder(calls[k].pk_list,
                             UNION {OccupationsOf(h) : h \in 0..calls[k].generation})

\* C6 witness: after two generations with failures the pool holds the AFM
\* outputs and the successes of both generations
C6_Witness ==
    /\ inputs.proposal_holistic
    /\ \E k \in 1..Len(calls) :
          /\ calls[k].generation = 2
          /\ calls[k].status = "ok"
          /\ ctx.generation_results[1].n_failed >= 1
          /\ ctx.generation_results[2].n_failed >= 1
          /\ Len(calls[k].pk_list) =
                ctx.generation_results[0].n_calculations
                + ctx.generation_results[1].n_successful
                + ctx.generation_results[2].n_successful

\* C7: in a run with a valid batch size, the list of successful result
\* references and every seed pool handed to the generator hold no failure
\* sentinel.
C7_NoSentinelInPools ==
    inputs.N >= 1 =>
    /\ \A i \in 1..Len(ctx.result_matrices_pks) : ctx.result_matrices_pks[i] # FailedPk
    /\ \A k \in 1..Len(calls) :
          \A i \in 1..Len(calls[k].pk_list) : calls[k].pk_list[i] # FailedPk

\* C8: the proposals of the batch of generation g were stored by the call
\* of the generator made after generation g-1, after every result of
\* generation g-1 was stored, and that call was seeded with the successes of
\* generation g-1; no call is made for a generation whose batch is running.
C8_ProposalsFollowResults ==
    /\ \A k \in 1..Len(submitted) :
          LET g == submitted[k].generation
              batch == submitted[k].occupation_matrices_list
          IN /\ g = k
             /\ \A i \in 1..Len(batch) :
                   /\ nodes[batch[i].pk].role = "proposal"
                   /\ nodes[batch[i].pk].gen = g - 1
                   /\ \A n \in 1..Len(nodes) :
                         (nodes[n].role # "proposal" /\ nodes[n].gen <= g - 1) => n < batch[i].pk
             /\ \E c \in CallsAfter(g - 1) :
                   /\ calls[c].status = "ok"
                   /\ OccupationsOf(g - 1) \subseteq Range(calls[c].pk_list)
    /\ \A c \in 1..Len(calls) :
          (calls[c].generation >= 1 /\ calls[c].generation = ctx.generation)
          => /\ constrained_wc.state = "finished"
             /\ \A i \in 1..Len(constrained_wc.calcs) : constrained_wc.calcs[i].state # "running"

\* C8 witness: a third batch is running, made of proposals generated after
\* a second generation in which a calculation failed
C8_Witness ==
    /\ Len(submitted) = 3
    /\ constrained_wc.state = "running"
    /\ ctx.generation_results[2].n_failed >= 1
    /\ Len(submitted[3].occupation_matrices_list) >= 2
    /\ nodes[submitted[3].occupation_matrices_list[1].pk].gen = 2

\* C9: when gather_final_results is reached N_cumulative is Nmax, and its
\* outputs hold Nmax job identifiers and a summary with one record for the
\* AFM round and one for every constrained generation run.
C9_BudgetTerminalState ==
    /\ pc = "gather_final_results" => ctx.N_cumulative = inputs.Nmax
    /\ outputs.attached =>
          /\ ctx.N_cumulative = inputs.Nmax
          /\ Len(outputs.all_calculation_pks) = inputs.Nmax
          /\ \A i \in 1..Len(outputs.all_calculation_pks) :
                nodes[outputs.all_calculation_pks[i]].role = "calculation"
          /\ DOMAIN outputs.generation_summary =
                {<<"Generation", k>> : k \in 0..Len(submitted)}
          /\ outputs.generation_summary[<<"Generation", 0>>].type = "afm"
          /\ \A k \in 1..Len(submitted) :
                outputs.generation_summary[<<"Generation", k>>].type = "constrained"

\* C9 witness: the budget state is reached after three generations, one of
\* them with a failed calculation
C9_Witness ==
    /\ outputs.attached
    /\ pc = "finished"
    /\ Len(submitted) = 3
    /\ \E k \in 1..3 : outputs.generation_summary[<<"Generation", k>>].n_failed >= 1

\* the occupation outputs of the calculations of the current batch that
\* produced one, by calculation index
RoundSuccesses ==
    LET Done(c) == c.state = "finished"
    IN [i \in 1..Len(SelectSeq(constrained_wc.calcs, Done)) |->
           SelectSeq(constrained_wc.calcs, Done)[i].occupations]

\* Step by step: process_constrained_results, for a batch with a success,
\* adds exactly one record to the generation history and appends exactly the
\* successes of the round to the successful-result list; update_counters,
\* when it runs, adds the number of proposals submitted in the round to
\* N_cumulative, which changes in no other step of the loop; for a batch
\* without success the history, both result lists and N_cumulative stay as
\* they are.
RoundBookkeepingStepwise ==
    /\ [][(pc = "process_constrained_results" /\ constrained_wc.state = "finished"
           /\ RoundSuccesses # <<>>)
          => /\ DOMAIN ctx'.generation_results =
                   (DOMAIN ctx.generation_results) \cup {ctx.generation}
             /\ ctx.generation \notin DOMAIN ctx.generation_results
             /\ \A g \in DOMAIN ctx.generation_results :
                   ctx'.generation_results[g] = ctx.generation_results[g]
             /\ ctx'.generation_results[ctx.generation].n_calculations
                   = Len(submitted[Len(submitted)].occupation_matrices_list)
             /\ ctx'.generation_results[ctx.generation].n_successful = Len(RoundSuccesses)
             /\ ctx'.result_matrices_pks = ctx.result_matrices_pks \o RoundSuccesses
             /\ Len(ctx'.all_matrices_pks) =
                   Len(ctx.all_matrices_pks) + Len(submitted[Len(submitted)].occupation_matrices_list)
             /\ ctx'.N_cumulative = ctx.N_cumulative]_vars
    /\ [][pc = "update_counters"
          => /\ ctx'.N_cumulative =
                   ctx.N_cumulative + Len(submitted[Len(submitted)].occupation_matrices_list)
             /\ ctx'.generation_results = ctx.generation_results
             /\ ctx'.result_matrices_pks = ctx.result_matrices_pks
             /\ ctx'.all_matrices_pks = ctx.all_matrices_pks]_vars
    /\ [][(pc = "process_constrained_results" /\ constrained_wc.state = "finished"
           /\ RoundSuccesses = <<>>)
          => /\ ctx'.generation_results = ctx.generation_results
             /\ ctx'.result_matrices_pks = ctx.result_matrices_pks
             /\ ctx'.all_matrices_pks = ctx.all_matrices_pks
             /\ ctx'.N_cumulative = ctx.N_cumulative]_vars
    /\ [][(ctx.initialised /\ ctx'.N_cumulative # ctx.N_cumulative) => pc = "update_counters"]_vars

\* the numbers of calculations of the constrained rounds in the history
RecordedCalculations ==
    [g \in 1..Cardinality(RecordedGenerations) |-> ctx.generation_results[g].n_calculations]

\* C10: a batch that completes with at least one success is recorded and
\* counted: once its record is in the generation history and the step that
\* follows the recording is over, N_cumulative has been raised by the number
\* of proposals submitted in the round, so N_cumulative is the sum of the
\* n_calculations of the recorded rounds.
C10_RoundCounted ==
    (ctx.initialised /\ pc # "update_counters") =>
        /\ RecordedGenerations = 1..Cardinality(RecordedGenerations)
        /\ ctx.N_cumulative = SumSeq(RecordedCalculations)

\* C11: a finished ConstrainedScanWorkChain that was given n proposals has a
\* result list and a calculation-pk list of n entries each; entry i belongs
\* to the calculation submitted for input proposal i, and the result entry is
\* the sentinel -1 exactly when that calculation has no occupation output,
\* otherwise the pk of that calculation's own output node
C11_ScanPreservesLengthAndOrder ==
    constrained_wc.state = "finished" =>
        LET n == Len(constrained_wc.inputs)
            matrices == constrained_wc.all_occupation_matrices
            pks == constrained_wc.calculation_pks
        IN /\ Len(matrices) = n
           /\ Len(pks) = n
           /\ \A i \in 1..n :
                 /\ constrained_wc.calcs[i].target = constrained_wc.inputs[i]
                 /\ pks[i] = constrained_wc.calcs[i].pk
                 /\ nodes[pks[i]] = CalcNode(ctx.generation, i - 1)
                 /\ (matrices[i] = FailedPk) <=> (constrained_wc.calcs[i].state = "failed")
                 /\ matrices[i] # FailedPk =>
                       /\ matrices[i] = constrained_wc.calcs[i].occupations
                       /\ nodes[matrices[i]] = OccNode(ctx.generation, i - 1)

\* a finished batch of three in which the first calculation failed and the
\* later ones did not
C11_Witness ==
    /\ constrained_wc.state = "finished"
    /\ Len(constrained_wc.inputs) = 3
    /\ constrained_wc.all_occupation_matrices[1] = FailedPk
    /\ constrained_wc.all_occupation_matrices[2] # FailedPk
    /\ constrained_wc.all_occupation_matrices[3] # FailedPk
    /\ constrained_wc.all_occupation_matrices[3] < constrained_wc.all_occupation_matrices[2]

\* the proposal nodes stored by the generator call made after generation g
ProposalsOf(g) ==
    {pk \in 1..Len(nodes) : nodes[pk].role = "proposal" /\ nodes[pk].gen = g}

\* C12: every successful call of the generator returns exactly as many
\* proposals as the next batch submits: min(N, Nmax) after the AFM round and
\* min(N, Nmax - N_cumulative) after a constrained generation, so that no
\* proposal is generated that is not submitted.
C12_NoSurplusProposals ==
    \A c \in 1..Len(calls) :
        calls[c].status = "ok" =>
            calls[c].n_proposals =
                Min(inputs.N, inputs.Nmax - EvaluatedThrough(calls[c].generation))

\* C12, amended: every successful call of the generator returns and stores
\* exactly N proposals, whatever budget remains; the batch submitted next is
\* the first min(N, Nmax - N_cumulative) of them, in order, and the other
\* proposals of the call are never submitted.
C12_SurplusProposalsDiscarded ==
    /\ \A c \in 1..Len(calls) :
          calls[c].status = "ok" =>
              /\ calls[c].n_proposals = inputs.N
              /\ Cardinality(ProposalsOf(calls[c].generation)) = inputs.N
    /\ \A k \in 1..Len(submitted) :
          LET batch == submitted[k].occupation_matrices_list
              size == Min(inputs.N, inputs.Nmax - EvaluatedThrough(k - 1))
          IN /\ Len(batch) = size
             /\ \A i \in 1..Len(batch) : nodes[batch[i].pk] = ProposalNode(k - 1, i - 1)
             /\ \A pk \in ProposalsOf(k - 1) :
                   nodes[pk].idx >= size => \A j \in 1..Len(submitted) :
                       \A i \in 1..Len(submitted[j].occupation_matrices_list) :
                           submitted[j].occupation_matrices_list[i].pk # pk

\* a second batch smaller than N has been submitted out of N stored proposals
C12_Witness ==
    /\ Len(submitted) = 2
    /\ inputs.N = 3
    /\ Len(submitted[2].occupation_matrices_list) = 2
    /\ Cardinality(ProposalsOf(1)) = 3
    /\ constrained_wc.state = "finished"

\* ================================================================ the proposal generator, step by step
\* propose_new_constraints and propose_random_constraints run on plain Python
\* data.  In this specification `inputs` holds the arguments of one call,
\* `pc` the position in the function body, `ctx` its local variables and
\* `outputs` what the call returns or raises; the variables of the workchains
\* stay as they are before a run.
scan_vars == <<exit_status, afm_wc, constrained_wc, nodes, calls, submitted>>

MaxSeedLen == 3
MaxSeedAtoms == 2

\* the only matrix dimension rotate_QE_matrix accepts
DShellDim == 5

\* a seed entry: the number of atom keys '1'..'natoms' of the dictionary and
\* the dimension of its occupation matrices
SeedEntries == [natoms : 1..MaxSeedAtoms, norbitals : {3, DShellDim}]

SeedPools == UNION {[1..n -> SeedEntries] : n \in 0..MaxSeedLen}

\* keyword arguments of a call: readfile names a JSON list of readfile_len
\* entries, each with occupation numbers for every site and spin;
\* target_traces, when given, is DShellDim electrons for every site
ReadKwargs ==
    {[has_readfile |-> FALSE, readfile_len |-> 0,
      has_target_traces |-> FALSE, randomize_oxidation |-> TRUE]}
    \cup {[has_readfile |-> TRUE, readfile_len |-> l,
           has_target_traces |-> FALSE, randomize_oxidation |-> TRUE] : l \in 0..MaxReadLen}

RandomKwargs ==
    {[has_readfile |-> FALSE, readfile_len |-> 0,
      has_target_traces |-> t, randomize_oxidation |-> r] : t, r \in BOOLEAN}

\* electrons: the trace (up plus down) of every site of every seed entry
ProposeInputs ==
    {[function |-> "propose_new_constraints", occ_matr_list |-> pool, natoms |-> 0,
      N |-> n, mode |-> "read", kwargs |-> kw, electrons |-> DShellDim] :
        pool \in SeedPools, n \in 0..MaxN, kw \in ReadKwargs}
    \cup
    {[function |-> "propose_new_constraints", occ_matr_list |-> pool, natoms |-> 0,
      N |-> n, mode |-> "random", kwargs |-> kw, electrons |-> e] :
        pool \in SeedPools, n \in 0..MaxN, kw \in RandomKwargs, e \in {0, DShellDim}}
    \cup
    {[function |-> "propose_random_constraints", occ_matr_list |-> pool, natoms |-> a,
      N |-> n, mode |-> "random", kwargs |-> kw, electrons |-> e] :
        pool \in SeedPools, a \in 0..MaxSeedAtoms, n \in 0..MaxN, kw \in RandomKwargs,
        e \in {0, DShellDim}}

NoResult == [status |-> "running", msg |-> "", proposals |-> <<>>]
Raise(cls, msg) == [status |-> cls, msg |-> msg, proposals |-> <<>>]
Return(proposals) == [status |-> "ok", msg |-> "", proposals |-> proposals]

ProposeLocals ==
    [natoms |-> 0, nspin |-> 0, norbitals |-> 0,
     average_traces |-> [set |-> FALSE, value |-> <<>>],
     target_matrix_np |-> <<>>, proposals |-> <<>>, iteration |-> 0]

ProposeInit ==
    /\ inputs \in ProposeInputs
    /\ pc = "call"
    /\ ctx = ProposeLocals
    /\ outputs = NoResult
    /\ exit_status = 0
    /\ afm_wc = NoChild
    /\ constrained_wc = NoChild
    /\ nodes = <<>>
    /\ calls = <<>>
    /\ submitted = <<>>

\* propose_new_constraints, first statements: atom names, natoms and
\* norbitals are read from occ_matr_list[1], the second seed entry
ProposeReadSeed ==
    /\ pc = "call"
    /\ inputs.function = "propose_new_constraints"
    /\ IF Len(inputs.occ_matr_list) < 2
       THEN /\ pc' = "raised"
            /\ outputs' = Raise("IndexError", "list index out of range")
            /\ ctx' = ctx
       ELSE /\ pc' = "check_N"
            /\ ctx' = [ctx EXCEPT !.natoms = inputs.occ_matr_list[2].natoms,
                                  !.nspin = 2,
                                  !.norbitals = inputs.occ_matr_list[2].norbitals]
            /\ outputs' = outputs
    /\ UNCHANGED <<inputs, scan_vars>>

\* the check of N and the match on mode
ProposeCheckN ==
    /\ pc = "check_N"
    /\ IF inputs.N < 1
       THEN /\ pc' = "raised"
            /\ outputs' = Raise("ValueError", "N must be greater than or equal to 1")
       ELSE /\ pc' = IF inputs.mode = "random" THEN "random_targets" ELSE "read_open"
            /\ outputs' = outputs
    /\ UNCHANGED <<inputs, ctx, scan_vars>>

\* read mode: the test of the length of the loaded list
InsufficientSource(len_loaded_data, N) == len_loaded_data < N

ZeroBlock == [source |-> "zeros", entry |-> 0, atom |-> 0, spin |-> 0]
RandomBlock == [source |-> "random", entry |-> 0, atom |-> 0, spin |-> 0]

\* loaded_data[iteration]['occupation_numbers'][iatom][ispin]
LoadedBlock(iteration, iatom, ispin) ==
    [source |-> "loaded", entry |-> iteration, atom |-> iatom, spin |-> ispin]

\* np.zeros((natoms, nspin, norbitals, norbitals)), by site and spin
ZeroTargetMatrix(natoms, nspin) == [a \in 1..natoms |-> [sp \in 1..nspin |-> ZeroBlock]]

\* read mode: 'readfile' is looked up, the list is loaded and its length is
\* tested, then the buffer target_matrix_np is allocated once
ReadOpenSource ==
    /\ pc = "read_open"
    /\ IF ~inputs.kwargs.has_readfile
       THEN /\ pc' = "raised"
            /\ outputs' = Raise("ValueError", "readfile must be provided in kwargs for read mode")
            /\ ctx' = ctx
       ELSE IF InsufficientSource(inputs.kwargs.readfile_len, inputs.N)
       THEN /\ pc' = "raised"
            /\ outputs' = Raise("ValueError", "Loaded data has only len(loaded_data) dictionaries")
            /\ ctx' = ctx
       ELSE /\ pc' = "read_loop"
            /\ ctx' = [ctx EXCEPT !.target_matrix_np = ZeroTargetMatrix(ctx.natoms, ctx.nspin),
                                  !.proposals = <<>>,
                                  !.iteration = 0]
            /\ outputs' = outputs
    /\ UNCHANGED <<inputs, scan_vars>>

\* the loops over iatom and ispin of one iteration: every block of the
\* buffer is overwritten with the block of the entry read
FillTargetMatrix(target_matrix_np, iteration, natoms, nspin) ==
    [a \in 1..natoms |-> [sp \in 1..nspin |-> LoadedBlock(iteration, a - 1, sp - 1)]]

\* one iteration of the read loop: the buffer is filled from
\* loaded_data[iteration] and a copy of it (tolist) is appended
ReadIteration ==
    /\ pc = "read_loop"
    /\ ctx.iteration < inputs.N
    /\ IF ctx.iteration >= inputs.kwargs.readfile_len
       THEN /\ pc' = "raised"
            /\ outputs' = Raise("IndexError", "list index out of range")
            /\ ctx' = ctx
       ELSE LET filled == FillTargetMatrix(ctx.target_matrix_np, ctx.iteration,
                                           ctx.natoms, ctx.nspin)
            IN /\ ctx' = [ctx EXCEPT
                            !.target_matrix_np = filled,
                            !.proposals = Append(ctx.proposals,
                                                 [natoms |-> ctx.natoms, nspin |-> ctx.nspin,
                                                  norbitals |-> ctx.norbitals,
                                                  matrix |-> filled]),
                            !.iteration = ctx.iteration + 1]
               /\ pc' = pc
               /\ outputs' = outputs
    /\ UNCHANGED <<inputs, scan_vars>>

\* the loop is over: return proposals
ReadReturn ==
    /\ pc = "read_loop"
    /\ ctx.iteration = inputs.N
    /\ pc' = "returned"
    /\ outputs' = Return(ctx.proposals)
    /\ UNCHANGED <<inputs, ctx, scan_vars>>

\* propose_random_constraints called on its own, natoms being an argument
RandomCalled ==
    /\ pc = "call"
    /\ inputs.function = "propose_random_constraints"
    /\ ctx' = [ctx EXCEPT !.natoms = inputs.natoms]
    /\ pc' = "random_targets"
    /\ UNCHANGED <<inputs, outputs, scan_vars>>

\* _calculate_average_traces: per site, the traces of all the entries are
\* summed and divided by len(occ_matr_list)
calculate_average_traces(occ_matr_list, natoms, electrons) ==
    IF natoms = 0 THEN [status |-> "ok", value |-> <<>>]
    ELSE IF Len(occ_matr_list) = 0 THEN [status |-> "ZeroDivisionError", value |-> <<>>]
    ELSE IF \E k \in 1..Len(occ_matr_list) : occ_matr_list[k].natoms < natoms
         THEN [status |-> "KeyError", value |-> <<>>]
    ELSE [status |-> "ok", value |-> [a \in 1..natoms |-> electrons]]

\* STEP 1 of propose_random_constraints: the target electron counts
RandomTargets ==
    /\ pc = "random_targets"
    /\ IF inputs.kwargs.has_target_traces
       THEN /\ ctx' = [ctx EXCEPT !.average_traces =
                          [set |-> TRUE, value |-> [a \in 1..ctx.natoms |-> DShellDim]]]
            /\ pc' = "random_generate"
            /\ outputs' = outputs
       ELSE LET avg == calculate_average_traces(inputs.occ_matr_list, ctx.natoms,
                                                inputs.electrons)
            IN IF avg.status = "ok"
               THEN /\ ctx' = [ctx EXCEPT !.average_traces = [set |-> TRUE, value |-> avg.value]]
                    /\ pc' = "random_generate"
                    /\ outputs' = outputs
               ELSE /\ ctx' = ctx
                    /\ pc' = "raised"
                    /\ outputs' = Raise(avg.status, "")
    /\ UNCHANGED <<inputs, scan_vars>>

\* the proposals of a random-mode call that runs to its end
RandomProposals(N, natoms, dim) ==
    [i \in 1..N |-> [natoms |-> natoms, nspin |-> 2, norbitals |-> dim,
                     matrix |-> [a \in 1..natoms |-> [sp \in 1..2 |-> RandomBlock]]]]

\* STEP 2 of propose_random_constraints, by outcome.  Per proposal and site
\* the loop reads the matrix of occ_matr_list[0] for the site, builds the
\* occupation pattern (which fails for a negative electron count) and
\* rotates it (which fails unless the dimension is DShellDim); the synthesis
\* of one site is modelled step by step in RandomSpec.
RandomLoopResults(occ_matr_list, natoms, N, average_traces, randomize_oxidation) ==
    LET negative_possible ==
            randomize_oxidation /\ \E a \in 1..natoms : average_traces[a] = 0
    IN IF N < 1 THEN {Return(<<>>)}
       ELSE IF natoms = 0 THEN {Return(RandomProposals(N, 0, 0))}
       ELSE IF Len(occ_matr_list) = 0 THEN {Raise("IndexError", "list index out of range")}
       ELSE IF occ_matr_list[1].norbitals # DShellDim
            THEN {Raise("ValueError", "")}
       ELSE (IF occ_matr_list[1].natoms < natoms
             THEN {Raise("KeyError", "")}
             ELSE {Return(RandomProposals(N, natoms, occ_matr_list[1].norbitals))})
            \cup (IF negative_possible THEN {Raise("ValueError", "")} ELSE {})

RandomGenerate ==
    /\ pc = "random_generate"
    /\ \E res \in RandomLoopResults(inputs.occ_matr_list, ctx.natoms, inputs.N,
                                    ctx.average_traces.value,
                                    inputs.kwargs.randomize_oxidation) :
          /\ outputs' = res
          /\ pc' = IF res.status = "ok" THEN "returned" ELSE "raised"
          /\ ctx' = [ctx EXCEPT !.proposals = res.proposals]
    /\ UNCHANGED <<inputs, scan_vars>>

ProposeNext ==
    \/ ProposeReadSeed
    \/ ProposeCheckN
    \/ ReadOpenSource
    \/ ReadIteration
    \/ ReadReturn
    \/ RandomCalled
    \/ RandomTargets
    \/ RandomGenerate

ProposeSpec == ProposeInit /\ [][ProposeNext]_vars

\* ---------------------------------------------------------------- properties of the generator
ReadCall ==
    /\ inputs.function = "propose_new_constraints"
    /\ inputs.mode = "read"
    /\ inputs.kwargs.has_readfile

\* every seed entry has the sites and the matrix dimension of the first one
HomogeneousPool(occ_matr_list) ==
    \A k \in 1..Len(occ_matr_list) : occ_matr_list[k] = occ_matr_list[1]

\* a read-mode call on a source of fewer than N entries builds no proposal
\* and returns nothing; when the seed pool has a second entry the failure is
\* the ValueError of the length test, raised before the loop starts
ShortSourceNeverYieldsProposals ==
    (ReadCall /\ inputs.N >= 1 /\ inputs.kwargs.readfile_len < inputs.N) =>
        /\ ctx.proposals = <<>>
        /\ outputs.proposals = <<>>
        /\ pc \notin {"read_loop", "returned"}
        /\ (pc = "raised" /\ Len(inputs.occ_matr_list) >= 2) =>
              /\ outputs.status = "ValueError"
              /\ outputs.msg = "Loaded data has only len(loaded_data) dictionaries"

\* C13: a read-mode call for N >= 1 proposals on a source of fewer than N
\* entries fails with the data-insufficiency error (the ValueError of the
\* length test) before it produces any proposal, whatever the seed pool.
C13_ShortSourceFailsBeforeAnyProposal ==
    (ReadCall /\ inputs.N >= 1 /\ inputs.kwargs.readfile_len < inputs.N) =>
        /\ ctx.proposals = <<>>
        /\ outputs.proposals = <<>>
        /\ pc \notin {"read_loop", "returned"}
        /\ pc = "raised" =>
              /\ outputs.status = "ValueError"
              /\ outputs.msg = "Loaded data has only len(loaded_data) dictionaries"

\* proposal i of a finished read-mode call is the data of source entry i for
\* every site and spin
CarriesSourceInOrder(proposals, natoms) ==
    \A i \in 1..Len(proposals) :
        /\ proposals[i].natoms = natoms
        /\ DOMAIN proposals[i].matrix = 1..natoms
        /\ \A a \in 1..natoms : \A sp \in 1..2 :
              proposals[i].matrix[a][sp] = LoadedBlock(i - 1, a - 1, sp - 1)

\* C14: a read-mode call for N >= 1 proposals with a non-empty seed pool on a
\* source of at least N entries succeeds, and proposal i carries exactly the
\* data of source entry i for every site and spin, in source order.
C14_ReadModeSucceedsInSourceOrder ==
    (ReadCall /\ inputs.N >= 1 /\ inputs.kwargs.readfile_len >= inputs.N
       /\ Len(inputs.occ_matr_list) >= 1 /\ HomogeneousPool(inputs.occ_matr_list)) =>
        /\ pc # "raised"
        /\ pc = "returned" =>
              /\ Len(outputs.proposals) = inputs.N
              /\ CarriesSourceInOrder(outputs.proposals, inputs.occ_matr_list[1].natoms)

\* with a seed pool of at least two entries the read loop does what C14
\* says: the proposals built so far are the first entries of the source, in
\* order, each a copy of the buffer that later iterations do not change
ReadLoopCopiesSourceInOrder ==
    (ReadCall /\ Len(inputs.occ_matr_list) >= 2 /\ pc \in {"read_loop", "returned"}) =>
        /\ Len(ctx.proposals) = ctx.iteration
        /\ CarriesSourceInOrder(ctx.proposals, inputs.occ_matr_list[2].natoms)
        /\ pc = "returned" => /\ outputs.status = "ok"
                              /\ outputs.proposals = ctx.proposals
                              /\ Len(outputs.proposals) = inputs.N

\* C15: for every non-empty seed pool, a single entry included, and every
\* N >= 1 a call of the generator whose mode has what it needs returns
\* exactly N proposals, each covering every site of the seed pool with both
\* spin channels and the orbital dimension of the first seed entry.
C15_ExactlyNProposalsForAnySeedPool ==
    (/\ inputs.function = "propose_new_constraints"
     /\ inputs.N >= 1
     /\ Len(inputs.occ_matr_list) >= 1
     /\ HomogeneousPool(inputs.occ_matr_list)
     /\ inputs.mode = "read" =>
           inputs.kwargs.has_readfile /\ inputs.kwargs.readfile_len >= inputs.N
     /\ inputs.mode = "random" =>
           /\ inputs.occ_matr_list[1].norbitals = DShellDim
           /\ inputs.kwargs.has_target_traces \/ inputs.electrons > 0
     /\ pc \in {"returned", "raised"}) =>
        /\ outputs.status = "ok"
        /\ Len(outputs.proposals) = inputs.N
        /\ \A i \in 1..Len(outputs.proposals) :
              /\ outputs.proposals[i].natoms = inputs.occ_matr_list[1].natoms
              /\ outputs.proposals[i].nspin = 2
              /\ outputs.proposals[i].norbitals = inputs.occ_matr_list[1].norbitals
              /\ DOMAIN outputs.proposals[i].matrix = 1..inputs.occ_matr_list[1].natoms

\* C18: random mode without target counts on an empty seed pool fails with
\* a validation error (ValueError) and returns no proposal; no target count
\* is ever computed from the empty pool.
C18_EmptySeedPoolFails ==
    (/\ inputs.mode = "random"
     /\ ~inputs.kwargs.has_target_traces
     /\ Len(inputs.occ_matr_list) = 0) =>
        /\ ctx.proposals = <<>>
        /\ outputs.proposals = <<>>
        /\ pc # "returned"
        /\ pc = "raised" => outputs.status = "ValueError"

\* C19: a call of the generator with N < 1 fails with the ValueError
\* 'N must be greater than or equal to 1', whatever the seed pool, an empty
\* or single-entry pool included.
C19_NonPositiveNFailsFirst ==
    (inputs.function = "propose_new_constraints" /\ inputs.N < 1) =>
        /\ pc # "returned"
        /\ pc = "raised" =>
              /\ outputs.status = "ValueError"
              /\ outputs.msg = "N must be greater than or equal to 1"

\* ================================================================ random mode, site by site
\* propose_random_constraints with its loops unrolled: `inputs` holds the
\* arguments, `ctx` the locals of the loops, `outputs` the result.  Target
\* counts are kept in halves so that the rounding of a float is visible.
MaxExcess == 1

\* the call quoted in random_mode.py: N=10, natoms=2, target_traces=[5, 5]
ExampleN == 10
ExampleNatoms == 2
ExampleTrace == 5

\* average_traces, twice the value per site; with target_traces in kwargs they
\* are the numbers given, otherwise the averages of the seed pool
RandomInputs ==
    {[N |-> ExampleN, natoms |-> ExampleNatoms, dim |-> DShellDim,
      average_traces_x2 |-> [a \in 1..ExampleNatoms |-> 2 * ExampleTrace],
      randomize_oxidation |-> r] : r \in BOOLEAN}
    \cup
    UNION {{[N |-> 1, natoms |-> 1, dim |-> d,
             average_traces_x2 |-> <<h>>, randomize_oxidation |-> r] :
                h \in 0..(2 * (2 * d + MaxExcess)), r \in BOOLEAN} : d \in {1, 3, DShellDim}}

RandomLocals ==
    [iteration |-> 0, iatom |-> 0, target_oxidation |-> 0,
     diagonal_elements |-> <<>>, up_elements |-> <<>>, down_elements |-> <<>>,
     occ_mat_list_per_atom |-> <<>>, proposals |-> <<>>]

RandomInit ==
    /\ inputs \in RandomInputs
    /\ pc = "site"
    /\ ctx = RandomLocals
    /\ outputs = NoResult
    /\ exit_status = 0
    /\ afm_wc = NoChild
    /\ constrained_wc = NoChild
    /\ nodes = <<>>
    /\ calls = <<>>
    /\ submitted = <<>>

\* round() of a float given as x2 / 2: ties go to the even integer
RoundHalfEven(x2) ==
    LET q == x2 \div 2
    IN IF x2 % 2 = 0 THEN q ELSE IF q % 2 = 0 THEN q ELSE q + 1

\* a perturbation that ignores randomize_oxidation
OxidationPerturbationsAlways(randomize_oxidation) == {-1, 0, 1}

\* np.random.randint(-1, 2) when randomize_oxidation, nothing added otherwise
OxidationPerturbations(randomize_oxidation) ==
    IF randomize_oxidation THEN {-1, 0, 1} ELSE {0}

\* STEP 2a: target_oxidation for the site iatom
SiteTarget ==
    /\ pc = "site"
    /\ \E perturbation \in OxidationPerturbations(inputs.randomize_oxidation) :
          ctx' = [ctx EXCEPT !.target_oxidation =
                     RoundHalfEven(inputs.average_traces_x2[ctx.iatom + 1]) + perturbation]
    /\ pc' = "diagonal"
    /\ UNCHANGED <<inputs, outputs, scan_vars>>

\* the Python list [x] * n, empty for n <= 0
PyRepeat(x, n) == [i \in 1..n |-> x]

\* actual_electrons = min(target_electrons, max_electrons)
ActualElectrons(target_electrons, max_electrons) == Min(target_electrons, max_electrons)

\* diagonal_elements before the shuffle
DiagonalElements(dim, target_electrons) ==
    LET max_electrons == 2 * dim
        actual_electrons == ActualElectrons(target_electrons, max_electrons)
    IN PyRepeat(1, actual_electrons) \o PyRepeat(0, max_electrons - actual_electrons)

\* the orders np.random.shuffle can leave the list in
Shuffles(elements) ==
    {p \in [1..Len(elements) -> {0, 1}] : SumSeq(p) = SumSeq(elements)}

\* STEP 2b, _create_random_diagonal_matrices: the list is shuffled and cut at
\* dim; np.diag of each part is assigned to a dim x dim block, which raises
\* ValueError when the part does not have dim entries
CreateDiagonal ==
    /\ pc = "diagonal"
    /\ \E shuffled \in Shuffles(DiagonalElements(inputs.dim, ctx.target_oxidation)) :
          LET up == Take(shuffled, inputs.dim)
              down == SubSeq(shuffled, Len(up) + 1, Len(shuffled))
          IN /\ ctx' = [ctx EXCEPT !.diagonal_elements = shuffled,
                                   !.up_elements = up,
                                   !.down_elements = down]
             /\ IF Len(up) = inputs.dim /\ Len(down) = inputs.dim
                THEN /\ pc' = "rotate"
                     /\ outputs' = outputs
                ELSE /\ pc' = "raised"
                     /\ outputs' = Raise("ValueError", "could not broadcast input array")
    /\ UNCHANGED <<inputs, scan_vars>>

\* the trace of the real part of a rotated block: rotate_QE_matrix is a
\* unitary similarity, which keeps the trace of the diagonal block
RotatedTrace(elements) == SumSeq(elements)

\* STEP 2c and the append: both blocks are rotated by rotate_QE_matrix, which
\* raises ValueError unless dim is DShellDim, and the real parts are appended
\* to occ_mat_list_per_atom
RotateAndAppendSite ==
    /\ pc = "rotate"
    /\ IF inputs.dim # DShellDim
       THEN /\ pc' = "raised"
            /\ outputs' = Raise("ValueError", "Only dimension 5 is supported for d-orbitals.")
            /\ ctx' = ctx
       ELSE /\ ctx' = [ctx EXCEPT
                         !.occ_mat_list_per_atom =
                             Append(ctx.occ_mat_list_per_atom,
                                    [trace_up |-> RotatedTrace(ctx.up_elements),
                                     trace_down |-> RotatedTrace(ctx.down_elements)]),
                         !.diagonal_elements = <<>>,
                         !.up_elements = <<>>,
                         !.down_elements = <<>>,
                         !.iatom = ctx.iatom + 1]
            /\ pc' = IF ctx.iatom + 1 < inputs.natoms THEN "site" ELSE "append_proposal"
            /\ outputs' = outputs
    /\ UNCHANGED <<inputs, scan_vars>>

\* proposals.append({'matrix': occ_mat_list_per_atom}); of the proposals
\* already appended only the shape is kept
AppendProposal ==
    /\ pc = "append_proposal"
    /\ ctx' = [ctx EXCEPT
                 !.proposals = Append(ctx.proposals,
                                      [natoms |-> Len(ctx.occ_mat_list_per_atom),
                                       nspin |-> 2, norbitals |-> inputs.dim]),
                 !.occ_mat_list_per_atom = <<>>,
                 !.iatom = 0,
                 !.iteration = ctx.iteration + 1]
    /\ pc' = IF ctx.iteration + 1 < inputs.N THEN "site" ELSE "return"
    /\ UNCHANGED <<inputs, outputs, scan_vars>>

RandomReturn ==
    /\ pc = "return"
    /\ outputs' = Return(ctx.proposals)
    /\ pc' = "returned"
    /\ UNCHANGED <<inputs, ctx, scan_vars>>

RandomNext ==
    \/ SiteTarget
    \/ CreateDiagonal
    \/ RotateAndAppendSite
    \/ AppendProposal
    \/ RandomReturn

RandomSpec == RandomInit /\ [][RandomNext]_vars

\* ---------------------------------------------------------------- properties of random mode
\* the target, the shuffled list and its two parts are those of the site
\* being synthesised
PatternBuilt == ctx.diagonal_elements # <<>>

TargetIsRoundedPlusPerturbation ==
    pc \in {"diagonal", "rotate"} \/ PatternBuilt =>
        \E perturbation \in (IF inputs.randomize_oxidation THEN {-1, 0, 1} ELSE {0}) :
            ctx.target_oxidation =
                RoundHalfEven(inputs.average_traces_x2[ctx.iatom + 1]) + perturbation

\* C16: the target occupation t of a site is the rounded target count plus a
\* perturbation in {-1, 0, +1} (0 when randomize_oxidation is off), and the
\* occupancy pattern built for it has exactly 2*dim entries of which exactly
\* t are ones, dim of them for the up diagonal and dim for the down diagonal,
\* for every t the perturbation produces from a target count the site can
\* hold; stated here for t <= 2*dim, t < 0 included.
C16_PatternHasExactlyTOnes ==
    /\ TargetIsRoundedPlusPerturbation
    /\ (PatternBuilt /\ ctx.target_oxidation <= 2 * inputs.dim
          /\ RoundHalfEven(inputs.average_traces_x2[ctx.iatom + 1]) >= 0) =>
          /\ Len(ctx.diagonal_elements) = 2 * inputs.dim
          /\ SumSeq(ctx.diagonal_elements) = ctx.target_oxidation
          /\ Len(ctx.up_elements) = inputs.dim
          /\ Len(ctx.down_elements) = inputs.dim

\* what _create_random_diagonal_matrices does for every t: for
\* 0 <= t <= 2*dim the pattern has 2*dim entries with exactly t ones, dim up
\* and dim down; for t > 2*dim the count is capped and the pattern is 2*dim
\* ones; for t < 0 the list has 2*dim - t entries, all zeros, the down part
\* has dim - t entries and the call raises ValueError
PatternCappedOrRejected ==
    /\ TargetIsRoundedPlusPerturbation
    /\ PatternBuilt =>
          LET t == ctx.target_oxidation
              dim == inputs.dim
              ones == SumSeq(ctx.diagonal_elements)
          IN /\ ctx.diagonal_elements = ctx.up_elements \o ctx.down_elements
             /\ Len(ctx.up_elements) = dim
             /\ (0 <= t /\ t <= 2 * dim) =>
                   /\ Len(ctx.diagonal_elements) = 2 * dim
                   /\ ones = t
                   /\ Len(ctx.down_elements) = dim
             /\ t > 2 * dim =>
                   /\ Len(ctx.diagonal_elements) = 2 * dim
                   /\ ones = 2 * dim
                   /\ Len(ctx.down_elements) = dim
             /\ t < 0 =>
                   /\ Len(ctx.diagonal_elements) = 2 * dim - t
                   /\ ones = 0
                   /\ Len(ctx.down_elements) = dim - t
                   /\ pc = "raised"
                   /\ outputs.status = "ValueError"
             /\ (t >= 0 /\ pc = "raised") => inputs.dim # DShellDim

\* the call propose_random_constraints(..., natoms=2, N=10, target_traces=[5, 5])
ExampleCall ==
    /\ inputs.N = ExampleN
    /\ inputs.natoms = ExampleNatoms
    /\ inputs.average_traces_x2 = [a \in 1..ExampleNatoms |-> 2 * ExampleTrace]

\* C17: in the call with N=10, natoms=2 and target_traces=[5, 5] every
\* generated pair of matrices has round(trace_up + trace_down) = 5.
C17_TracesRoundToFive ==
    ExampleCall =>
        \A a \in 1..Len(ctx.occ_mat_list_per_atom) :
            ctx.occ_mat_list_per_atom[a].trace_up
                + ctx.occ_mat_list_per_atom[a].trace_down = ExampleTrace

\* C17, amended: in that call every generated pair has
\* round(trace_up + trace_down) = 5 when randomize_oxidation=False; with the
\* default randomize_oxidation=True the value is 4, 5 or 6.  Either way the
\* call returns 10 proposals of 2 sites.
C17_TracesRoundToFiveWithoutRandomization ==
    ExampleCall =>
        /\ \A a \in 1..Len(ctx.occ_mat_list_per_atom) :
              LET total == ctx.occ_mat_list_per_atom[a].trace_up
                               + ctx.occ_mat_list_per_atom[a].trace_down
              IN /\ ~inputs.randomize_oxidation => total = ExampleTrace
                 /\ inputs.randomize_oxidation =>
                       total \in {ExampleTrace - 1, ExampleTrace, ExampleTrace + 1}
        /\ pc # "raised"
        /\ Len(ctx.proposals) = ctx.iteration
        /\ pc = "returned" =>
              /\ Len(outputs.proposals) = ExampleN
              /\ \A i \in 1..ExampleN : outputs.proposals[i].natoms = ExampleNatoms

\* the tenth proposal of the call without randomization is complete, its two
\* sites with different splits of the five electrons between the spins
C17_Witness ==
    /\ ExampleCall
    /\ ~inputs.randomize_oxidation
    /\ pc = "append_proposal"
    /\ ctx.iteration = ExampleN - 1
    /\ Len(ctx.occ_mat_list_per_atom) = ExampleNatoms
    /\ ctx.occ_mat_list_per_atom[1].trace_up # ctx.occ_mat_list_per_atom[2].trace_up

\* ================================================================ the rotation library: input checks
\* The four functions of rotation_matrices.py, by outcome.  `inputs` holds the
\* function called and its arguments, `ctx` the locals of rotate_QE_matrix,
\* `outputs` the shape of what is returned or the exception raised.  The
\* quantum number l is kept in quarters (l = l4 / 4) so that values that are
\* not multiples of 1/2 exist; an axis is a flat sequence of numbers.
MaxL4 == 8
MaxAxisLen == 4
MaxDim == 7

Axes == UNION {[1..n -> {-1, 0, 1}] : n \in 0..MaxAxisLen}

RotationInputs ==
    {[function |-> "get_angular_momentum_operators", l_is_number |-> b, l4 |-> q,
      axis |-> <<>>, dim |-> 0, convention |-> "qe"] : b \in BOOLEAN, q \in (-MaxL4)..MaxL4}
    \cup
    {[function |-> "get_rotation_matrix", l_is_number |-> TRUE, l4 |-> 2 * (d - 1),
      axis |-> ax, dim |-> d, convention |-> "qe"] : ax \in Axes, d \in 1..MaxDim}
    \cup
    {[function |-> "spherical_to_cubic_rotation", l_is_number |-> TRUE, l4 |-> 0,
      axis |-> <<>>, dim |-> d, convention |-> c] : d \in 0..MaxDim, c \in {"qe", "wien2k"}}
    \cup
    {[function |-> "rotate_QE_matrix", l_is_number |-> TRUE, l4 |-> 0,
      axis |-> ax, dim |-> d, convention |-> "qe"] : ax \in Axes, d \in 0..MaxDim}

NoShape == [status |-> "running", msg |-> "", shape |-> 0]
RaiseValueError(msg) == [status |-> "ValueError", msg |-> msg, shape |-> 0]
ReturnShape(dim) == [status |-> "ok", msg |-> "", shape |-> dim]

RotationLocals == [dim |-> 0, l_angular_momentum_x4 |-> 0, operators |-> 0, R |-> 0]

RotationInit ==
    /\ inputs \in RotationInputs
    /\ pc = "call"
    /\ ctx = RotationLocals
    /\ outputs = NoShape
    /\ exit_status = 0
    /\ afm_wc = NoChild
    /\ constrained_wc = NoChild
    /\ nodes = <<>>
    /\ calls = <<>>
    /\ submitted = <<>>

\* a check of l that lets negative values pass
ValidQuantumNumberAnySign(l_is_number, l4) == l_is_number /\ l4 % 2 = 0

\* l is an int or a float, l >= 0 and (l * 2) % 1 == 0
ValidQuantumNumber(l_is_number, l4) == l_is_number /\ l4 >= 0 /\ l4 % 2 = 0

\* get_angular_momentum_operators: ValueError, or operators of
\* dim = int(2 * l + 1) rows
get_angular_momentum_operators(l_is_number, l4) ==
    IF ~ValidQuantumNumber(l_is_number, l4)
    THEN RaiseValueError("l must be a non-negative integer or half-integer.")
    ELSE ReturnShape(l4 \div 2 + 1)

\* np.linalg.norm(axis) == 0
ZeroNorm(axis) == \A i \in 1..Len(axis) : axis[i] = 0

\* get_rotation_matrix: ValueError, or a matrix of the shape of Lx
get_rotation_matrix(axis, operators_dim) ==
    IF Len(axis) # 3 THEN RaiseValueError("Axis must be a 3-element vector.")
    ELSE IF ZeroNorm(axis) THEN RaiseValueError("Axis cannot be the zero vector.")
    ELSE ReturnShape(operators_dim)

\* spherical_to_cubic_rotation: the convention is checked, then the dimension
spherical_to_cubic_rotation(dim, convention) ==
    IF convention # "qe" THEN RaiseValueError("Only 'qe' convention is supported for now.")
    ELSE IF dim # DShellDim THEN RaiseValueError("Only dimension 5 is supported for d-orbitals.")
    ELSE ReturnShape(DShellDim)

\* a call of one of the three functions that rotate_QE_matrix is built from
LibraryCall ==
    /\ pc = "call"
    /\ inputs.function # "rotate_QE_matrix"
    /\ LET res == IF inputs.function = "get_angular_momentum_operators"
                  THEN get_angular_momentum_operators(inputs.l_is_number, inputs.l4)
                  ELSE IF inputs.function = "get_rotation_matrix"
                  THEN get_rotation_matrix(inputs.axis, inputs.dim)
                  ELSE spherical_to_cubic_rotation(inputs.dim, inputs.convention)
       IN /\ outputs' = res
          /\ pc' = IF res.status = "ok" THEN "returned" ELSE "raised"
    /\ UNCHANGED <<inputs, ctx, scan_vars>>

\* rotate_QE_matrix: dim = rho_qe.shape[0], l = (dim - 1) / 2 and the
\* operators for l
RotateOperators ==
    /\ pc = "call"
    /\ inputs.function = "rotate_QE_matrix"
    /\ LET l4 == 2 * (inputs.dim - 1)
           res == get_angular_momentum_operators(TRUE, l4)
       IN IF res.status = "ok"
          THEN /\ ctx' = [ctx EXCEPT !.dim = inputs.dim, !.l_angular_momentum_x4 = l4,
                                     !.operators = res.shape]
               /\ pc' = "rotation_matrix"
               /\ outputs' = outputs
          ELSE /\ ctx' = [ctx EXCEPT !.dim = inputs.dim, !.l_angular_momentum_x4 = l4]
               /\ pc' = "raised"
               /\ outputs' = res
    /\ UNCHANGED <<inputs, scan_vars>>

\* rotate_QE_matrix: R = get_rotation_matrix(angle, axis, Lx, Ly, Lz)
RotateRotationMatrix ==
    /\ pc = "rotation_matrix"
    /\ LET res == get_rotation_matrix(inputs.axis, ctx.operators)
       IN IF res.status = "ok"
          THEN /\ ctx' = [ctx EXCEPT !.R = res.shape]
               /\ pc' = "to_cubic"
               /\ outputs' = outputs
          ELSE /\ ctx' = ctx
               /\ pc' = "raised"
               /\ outputs' = res
    /\ UNCHANGED <<inputs, scan_vars>>

\* rotate_QE_matrix: C = spherical_to_cubic_rotation(dim=dim, convention='qe'),
\* then the products that give rho_rotated
RotateToCubic ==
    /\ pc = "to_cubic"
    /\ LET res == spherical_to_cubic_rotation(ctx.dim, "qe")
       IN /\ outputs' = res
          /\ pc' = IF res.status = "ok" THEN "returned" ELSE "raised"
    /\ UNCHANGED <<inputs, ctx, scan_vars>>

RotationNext ==
    \/ LibraryCall
    \/ RotateOperators
    \/ RotateRotationMatrix
    \/ RotateToCubic

RotationSpec == RotationInit /\ [][RotationNext]_vars

\* ---------------------------------------------------------------- properties of the rotation library
\* the inputs the library has to reject
Malformed ==
    \/ /\ inputs.function = "get_angular_momentum_operators"
       /\ ~inputs.l_is_number \/ inputs.l4 < 0 \/ inputs.l4 % 2 # 0
    \/ /\ inputs.function = "get_rotation_matrix"
       /\ Len(inputs.axis) # 3 \/ \A i \in 1..Len(inputs.axis) : inputs.axis[i] = 0
    \/ /\ inputs.function = "spherical_to_cubic_rotation"
       /\ inputs.dim # 5 \/ inputs.convention # "qe"
    \/ /\ inputs.function = "rotate_QE_matrix"
       /\ inputs.dim # 5

\* C20: every malformed input of the rotation library is rejected with a
\* ValueError and nothing is returned: a negative l or an l that is not a
\* multiple of 1/2, an axis of zero length or not of three components, a
\* dimension other than 5 or a convention other than 'qe' for the
\* spherical-to-cubic transform, and so a matrix of dimension other than 5
\* for rotate_QE_matrix.
C20_MalformedInputRejected ==
    Malformed =>
        /\ pc # "returned"
        /\ outputs.status \in {"running", "ValueError"}
        /\ outputs.shape = 0
        /\ pc = "raised" => outputs.status = "ValueError"
        /\ (inputs.function # "rotate_QE_matrix" /\ pc # "call") => pc = "raised"

\* rotate_QE_matrix has rejected a 3 x 3 matrix, with a valid axis, at the
\* spherical-to-cubic transform
C20_Witness ==
    /\ inputs.function = "rotate_QE_matrix"
    /\ inputs.dim = 3
    /\ inputs.axis = <<0, 0, 1>>
    /\ pc = "raised"
    /\ ctx.R = 3
    /\ outputs.msg = "Only dimension 5 is supported for d-orbitals."

\* ================================================================ the rotation library: values
\* The matrices of rotation_matrices.py in exact arithmetic.  A number is
\* re + im*i + (re2 + im2*i)*sqrt(2) with integer parts; a matrix is a
\* sequence of rows.  In this specification `inputs` holds the function called
\* and its arguments, `ctx` the locals of rotate_QE_matrix and `outputs` the
\* matrices returned.
MaxL2 == 4

Z(re, im, re2, im2) == [re |-> re, im |-> im, re2 |-> re2, im2 |-> im2]

RZero == Z(0, 0, 0, 0)

RAdd(x, y) == Z(x.re + y.re, x.im + y.im, x.re2 + y.re2, x.im2 + y.im2)

RMul(x, y) ==
    Z(x.re * y.re - x.im * y.im + 2 * (x.re2 * y.re2 - x.im2 * y.im2),
      x.re * y.im + x.im * y.re + 2 * (x.re2 * y.im2 + x.im2 * y.re2),
      x.re * y.re2 - x.im * y.im2 + x.re2 * y.re - x.im2 * y.im,
      x.re * y.im2 + x.im * y.re2 + x.re2 * y.im + x.im2 * y.re)

RConj(x) == Z(x.re, -x.im, x.re2, -x.im2)

RECURSIVE RSum(_)
RSum(s) == IF s = <<>> THEN RZero ELSE RAdd(s[1], RSum(Tail(s)))

\* A @ B
MatMul(A, B) ==
    [r \in 1..Len(A) |-> [c \in 1..Len(B[1]) |->
        RSum([k \in 1..Len(B) |-> RMul(A[r][k], B[k][c])])]]

\* A.T.conj()
ConjTranspose(A) == [r \in 1..Len(A[1]) |-> [c \in 1..Len(A) |-> RConj(A[c][r])]]

\* np.trace(A)
Trace(A) == RSum([k \in 1..Len(A) |-> A[k][k]])

\* n times the identity
ScaledIdentity(dim, n) ==
    [r \in 1..dim |-> [c \in 1..dim |-> IF r = c THEN Z(n, 0, 0, 0) ELSE RZero]]

\* the entries of the tables below are kept doubled: 1 is Z(2,0,0,0) and
\* 1/sqrt(2) is sqrt(2)
TableScale == 2
One2 == Z(2, 0, 0, 0)
Sqrt2Inv2 == Z(0, 0, 1, 0)
ISqrt2Inv2 == Z(0, 0, 0, 1)
RNeg(x) == Z(-x.re, -x.im, -x.re2, -x.im2)

\* a table whose second row is not orthogonal to the third
TNotUnitary ==
    << <<RZero, RZero, One2, RZero, RZero>>,
       <<RZero, Sqrt2Inv2, RZero, Sqrt2Inv2, RZero>>,
       <<RZero, ISqrt2Inv2, RZero, ISqrt2Inv2, RZero>>,
       <<ISqrt2Inv2, RZero, RZero, RZero, RNeg(ISqrt2Inv2)>>,
       <<Sqrt2Inv2, RZero, RZero, RZero, Sqrt2Inv2>> >>

\* the array T of spherical_to_cubic_rotation
T ==
    << <<RZero, RZero, One2, RZero, RZero>>,
       <<RZero, Sqrt2Inv2, RZero, RNeg(Sqrt2Inv2), RZero>>,
       <<RZero, ISqrt2Inv2, RZero, ISqrt2Inv2, RZero>>,
       <<ISqrt2Inv2, RZero, RZero, RZero, RNeg(ISqrt2Inv2)>>,
       <<Sqrt2Inv2, RZero, RZero, RZero, Sqrt2Inv2>> >>

\* expected_matrix of test_matrix_properties, also the fixture
\* sample_rotation_matrix
expected_matrix ==
    << <<RZero, RZero, One2, RZero, RZero>>,
       <<RZero, RNeg(ISqrt2Inv2), RZero, ISqrt2Inv2, RZero>>,
       <<RZero, Sqrt2Inv2, RZero, Sqrt2Inv2, RZero>>,
       <<RNeg(ISqrt2Inv2), RZero, RZero, RZero, ISqrt2Inv2>>,
       <<Sqrt2Inv2, RZero, RZero, RZero, Sqrt2Inv2>> >>

\* ---- get_angular_momentum_operators, l = l2 / 2
\* m = -l + i, doubled, for the 0-based index i
DoubledMDecreasing(l2, i) == l2 - 2 * i

DoubledM(l2, i) == -l2 + 2 * i

\* four times l(l+1) - m(m+1) and l(l+1) - m(m-1): an entry of L+ or L- is
\* half the square root of the number kept for it
LoweringRadicandAsRaising(l2, m2) == l2 * (l2 + 2) - m2 * (m2 + 2)

RaisingRadicand(l2, m2) == l2 * (l2 + 2) - m2 * (m2 + 2)

LoweringRadicand(l2, m2) == l2 * (l2 + 2) - m2 * (m2 - 2)

\* Lz[i, i] = m; entries doubled
LzMatrix(l2) ==
    [r \in 1..(l2 + 1) |-> [c \in 1..(l2 + 1) |->
        IF r = c THEN DoubledM(l2, r - 1) ELSE 0]]

\* Lp[i + 1, i] = sqrt(...) if m < l
LpMatrix(l2) ==
    [r \in 1..(l2 + 1) |-> [c \in 1..(l2 + 1) |->
        IF r - 1 = (c - 1) + 1 /\ DoubledM(l2, c - 1) < l2
        THEN RaisingRadicand(l2, DoubledM(l2, c - 1)) ELSE 0]]

\* Lm[i - 1, i] = sqrt(...) if m > -l
LmMatrix(l2) ==
    [r \in 1..(l2 + 1) |-> [c \in 1..(l2 + 1) |->
        IF r - 1 = (c - 1) - 1 /\ DoubledM(l2, c - 1) > -l2
        THEN LoweringRadicand(l2, DoubledM(l2, c - 1)) ELSE 0]]

AngularMomentumOperators(l2) ==
    [dim |-> l2 + 1, Lz |-> LzMatrix(l2), Lp |-> LpMatrix(l2), Lm |-> LmMatrix(l2)]

\* ---- rotate_QE_matrix on 5 x 5 matrices, for the rotations whose matrix
\* expm gives exactly: about the z axis by a multiple of a quarter turn, and
\* about the x or the y axis by a multiple of a half turn.  The angle is
\* quarter_turns * pi / 2.
ZAxes == {<<0, 0, a>> : a \in {-2, -1, 1, 2}}

XYAxes == {<<1, 0, 0>>, <<-1, 0, 0>>, <<0, 1, 0>>, <<0, -2, 0>>}

QuarterTurns == 0..3

SampleRotations ==
    {<<k, ax>> : k \in QuarterTurns, ax \in ZAxes}
    \cup {<<k, ax>> : k \in {0, 2}, ax \in XYAxes}

DiagonalSamples == {<<1, 0, 0, 0, 0>>, <<0, 1, 0, 1, 0>>, <<1, 1, 1, 1, 1>>, <<0, 0, 1, 0, 2>>}

OffDiagonalSamples == {Z(1, 0, 0, 0), Z(0, 1, 0, 0), Z(1, 2, 0, 0)}

\* a Hermitian matrix: a real diagonal and one pair of conjugate entries
HermitianMatrix(diag, p, q, v) ==
    [r \in 1..DShellDim |-> [c \in 1..DShellDim |->
        IF r = c THEN Z(diag[r], 0, 0, 0)
        ELSE IF r = p /\ c = q THEN v
        ELSE IF r = q /\ c = p THEN RConj(v)
        ELSE RZero]]

HermitianSamples ==
    {HermitianMatrix(d, 1, 2, RZero) : d \in DiagonalSamples}
    \cup {HermitianMatrix(d, pq[1], pq[2], v) :
             d \in DiagonalSamples,
             pq \in {x \in (1..DShellDim) \X (1..DShellDim) : x[1] < x[2]},
             v \in OffDiagonalSamples}

MatrixInputs ==
    {[function |-> "spherical_to_cubic_rotation", l2 |-> 0, rho_qe |-> <<>>,
      quarter_turns |-> 0, axis |-> <<>>]}
    \cup
    {[function |-> "get_angular_momentum_operators", l2 |-> l, rho_qe |-> <<>>,
      quarter_turns |-> 0, axis |-> <<>>] : l \in 0..MaxL2}
    \cup
    {[function |-> "rotate_QE_matrix", l2 |-> 0, rho_qe |-> rho,
      quarter_turns |-> rot[1], axis |-> rot[2]] :
        rho \in HermitianSamples, rot \in SampleRotations}

\* scale: the number the entries of value are multiplied by
NoValue == [status |-> "running", value |-> <<>>, scale |-> 1]
ReturnValue(value, scale) == [status |-> "ok", value |-> value, scale |-> scale]

MatrixLocals == [dim |-> 0, l2 |-> 0, operators |-> <<>>, R |-> <<>>]

MatrixInit ==
    /\ inputs \in MatrixInputs
    /\ pc = "call"
    /\ ctx = MatrixLocals
    /\ outputs = NoValue
    /\ exit_status = 0
    /\ afm_wc = NoChild
    /\ constrained_wc = NoChild
    /\ nodes = <<>>
    /\ calls = <<>>
    /\ submitted = <<>>

\* spherical_to_cubic_rotation(dim=5, convention='qe') returns T
ReturnTable ==
    /\ pc = "call"
    /\ inputs.function = "spherical_to_cubic_rotation"
    /\ outputs' = ReturnValue(T, TableScale)
    /\ pc' = "returned"
    /\ UNCHANGED <<inputs, ctx, scan_vars>>

\* get_angular_momentum_operators(l) for a valid l
ReturnOperators ==
    /\ pc = "call"
    /\ inputs.function = "get_angular_momentum_operators"
    /\ outputs' = ReturnValue(AngularMomentumOperators(inputs.l2), 2)
    /\ pc' = "returned"
    /\ UNCHANGED <<inputs, ctx, scan_vars>>

\* (-i)^n
MinusIPower(n) ==
    LET k == n % 4
    IN IF k = 0 THEN Z(1, 0, 0, 0)
       ELSE IF k = 1 THEN Z(0, -1, 0, 0)
       ELSE IF k = 2 THEN Z(-1, 0, 0, 0)
       ELSE Z(0, 1, 0, 0)

\* axis / norm for an axis along z
ZSign(axis) == IF axis[3] > 0 THEN 1 ELSE -1

\* expm(-1j * angle * (axis[2] * Lz)) for angle = quarter_turns * pi / 2:
\* diagonal, with entry exp(-i * m * angle) for the m of Lz
RotationAboutZ(quarter_turns, axis, Lz) ==
    [r \in 1..Len(Lz) |-> [c \in 1..Len(Lz) |->
        IF r = c THEN MinusIPower(ZSign(axis) * (Lz[r][r] \div 2) * quarter_turns)
        ELSE RZero]]

\* expm(-1j * pi * (+-Lx)) and expm(-1j * pi * (+-Ly)) for an integer l: the
\* state m goes to -m, with the factor (-1)^l about x and (-1)^(l - m) about y
HalfTurnAboutXY(axis, Lz) ==
    LET dim == Len(Lz)
        l == (dim - 1) \div 2
    IN [r \in 1..dim |-> [c \in 1..dim |->
          IF r + c # dim + 1 THEN RZero
          ELSE IF axis[1] # 0 THEN MinusIPower(2 * l)
          ELSE MinusIPower(2 * (l - (Lz[c][c] \div 2)))]]

\* R = expm(-1j * angle * (axis[0] * Lx + axis[1] * Ly + axis[2] * Lz))
RotationMatrix(quarter_turns, axis, Lz) ==
    IF axis[3] # 0 THEN RotationAboutZ(quarter_turns, axis, Lz)
    ELSE IF quarter_turns = 0 THEN RotationAboutZ(0, <<0, 0, 1>>, Lz)
    ELSE HalfTurnAboutXY(axis, Lz)

\* rotate_QE_matrix: dim, l and the operators
RotateValueOperators ==
    /\ pc = "call"
    /\ inputs.function = "rotate_QE_matrix"
    /\ LET dim == Len(inputs.rho_qe)
       IN ctx' = [ctx EXCEPT !.dim = dim, !.l2 = dim - 1,
                             !.operators = AngularMomentumOperators(dim - 1)]
    /\ pc' = "rotation_matrix"
    /\ UNCHANGED <<inputs, outputs, scan_vars>>

\* rotate_QE_matrix: R
RotateValueR ==
    /\ pc = "rotation_matrix"
    /\ ctx' = [ctx EXCEPT !.R = RotationMatrix(inputs.quarter_turns, inputs.axis,
                                               ctx.operators.Lz)]
    /\ pc' = "to_cubic"
    /\ UNCHANGED <<inputs, outputs, scan_vars>>

\* the rotation applied without the conjugate transpose on the right
RotateDensityNoTranspose(R_cubic, rho_qe) == MatMul(MatMul(R_cubic, rho_qe), R_cubic)

\* R_cubic @ rho_qe @ R_cubic.T.conj()
RotateDensity(R_cubic, rho_qe) == MatMul(MatMul(R_cubic, rho_qe), ConjTranspose(R_cubic))

\* rotate_QE_matrix: C, R_cubic = C @ R @ C.T.conj() and rho_rotated
RotateValueCubic ==
    /\ pc = "to_cubic"
    /\ LET C == T
           R_cubic == MatMul(MatMul(C, ctx.R), ConjTranspose(C))
           rho_rotated == RotateDensity(R_cubic, inputs.rho_qe)
       IN outputs' = ReturnValue(rho_rotated,
                                 (TableScale * TableScale) * (TableScale * TableScale))
    /\ pc' = "returned"
    /\ UNCHANGED <<inputs, ctx, scan_vars>>

MatrixNext ==
    \/ ReturnTable
    \/ ReturnOperators
    \/ RotateValueOperators
    \/ RotateValueR
    \/ RotateValueCubic

MatrixSpec == MatrixInit /\ [][MatrixNext]_vars

\* ---------------------------------------------------------------- properties of the values
TableReturned == pc = "returned" /\ inputs.function = "spherical_to_cubic_rotation"

\* C21: spherical_to_cubic_rotation(dim=5, convention='qe') returns the table
\* that test_matrix_properties expects, entry for entry.
C21_TableIsTheTestTable ==
    TableReturned => outputs.value = expected_matrix

\* C22: the table T returned by spherical_to_cubic_rotation is unitary: T
\* times its conjugate transpose is the identity.
C22_TableIsUnitary ==
    TableReturned =>
        MatMul(outputs.value, ConjTranspose(outputs.value))
            = ScaledIdentity(DShellDim, outputs.scale * outputs.scale)

\* the table has been returned, with 1/sqrt(2) in its second row
C22_Witness ==
    /\ TableReturned
    /\ outputs.value[2][2] = Sqrt2Inv2
    /\ outputs.value[2][4] = RNeg(Sqrt2Inv2)

OperatorsReturned == pc = "returned" /\ inputs.function = "get_angular_momentum_operators"

\* C23: for every valid l the operators have dimension 2l + 1, Lz is diagonal
\* with m = -l + i at index i, L+ is non-zero only at (i + 1, i) and L- only at
\* (i - 1, i).
C23_OperatorShapes ==
    OperatorsReturned =>
        LET l2 == inputs.l2
            ops == outputs.value
            idx == 0..l2
        IN /\ ops.dim = l2 + 1
           /\ Len(ops.Lz) = l2 + 1 /\ Len(ops.Lp) = l2 + 1 /\ Len(ops.Lm) = l2 + 1
           /\ \A r \in idx : /\ Len(ops.Lz[r + 1]) = l2 + 1
                              /\ Len(ops.Lp[r + 1]) = l2 + 1
                              /\ Len(ops.Lm[r + 1]) = l2 + 1
           /\ \A r \in idx, c \in idx :
                /\ ops.Lz[r + 1][c + 1] = (IF r = c THEN 2 * r - l2 ELSE 0)
                /\ ops.Lp[r + 1][c + 1] # 0 => r = c + 1
                /\ ops.Lm[r + 1][c + 1] # 0 => r = c - 1

\* the operators of l = 2 have been returned, with both ladder operators filled
C23_Witness ==
    /\ OperatorsReturned
    /\ inputs.l2 = 4
    /\ outputs.value.Lz[1][1] = -4
    /\ outputs.value.Lp[2][1] # 0
    /\ outputs.value.Lm[1][2] # 0

\* sqrt(a) * sqrt(b) as an integer, -1 where it is not one
SqrtProduct(a, b) ==
    IF \E s \in 0..(a * b) : s * s = a * b
    THEN CHOOSE s \in 0..(a * b) : s * s = a * b
    ELSE -1

\* four times (A @ B)[r][c] for two ladder operators kept as radicands
LadderProduct(A, B, r, c) ==
    SumSeq([k \in 1..Len(B) |->
        IF A[r][k] = 0 \/ B[k][c] = 0 THEN 0 ELSE SqrtProduct(A[r][k], B[k][c])])

\* C24: for every valid l (half-integer l included) the operators satisfy
\* [L+, L-] = 2 Lz, which is [Lx, Ly] = i Lz for Lx = (L+ + L-)/2 and
\* Ly = (L+ - L-)/(2i).
C24_LadderCommutator ==
    OperatorsReturned =>
        LET ops == outputs.value
        IN \A r \in 1..ops.dim, c \in 1..ops.dim :
              LadderProduct(ops.Lp, ops.Lm, r, c) - LadderProduct(ops.Lm, ops.Lp, r, c)
                  = 4 * ops.Lz[r][c]

\* the operators of l = 1/2 have been returned: L+ = [[0,0],[1,0]]
C24_Witness ==
    /\ OperatorsReturned
    /\ inputs.l2 = 1
    /\ outputs.value.Lp = << <<0, 0>>, <<4, 0>> >>
    /\ outputs.value.Lm = << <<0, 4>>, <<0, 0>> >>
    /\ outputs.value.Lz = << <<-1, 0>>, <<0, 1>> >>

DensityRotated == pc = "returned" /\ inputs.function = "rotate_QE_matrix"

\* n * x
RScale(n, x) == Z(n * x.re, n * x.im, n * x.re2, n * x.im2)

\* C25: for a Hermitian 5 x 5 matrix, rotate_QE_matrix returns a Hermitian
\* matrix whose trace is the trace of the input.
C25_RotationKeepsHermitianAndTrace ==
    DensityRotated =>
        /\ \A r \in 1..DShellDim, c \in 1..DShellDim :
              outputs.value[r][c] = RConj(outputs.value[c][r])
        /\ Trace(outputs.value) = RScale(outputs.scale, Trace(inputs.rho_qe))

\* a quarter turn about z has moved a complex off-diagonal entry of the input
C25_Witness ==
    /\ DensityRotated
    /\ inputs.quarter_turns = 1
    /\ inputs.axis = <<0, 0, 1>>
    /\ inputs.rho_qe[2][4] = Z(1, 2, 0, 0)
    /\ outputs.value[3][4] # RZero
    /\ outputs.value[2][4] = RZero

\* ================================================================ the controller: failures and termination
ProposalFailed == \E k \in 1..Len(calls) : calls[k].status # "ok"

\* C26: whenever the generator raises inside the controller, the run ends with
\* exit code 402 ERROR_PROPOSAL_FAILED.
C26_ProposalFailureExits402 ==
    ProposalFailed => (pc = "finished" /\ exit_status = ERROR_PROPOSAL_FAILED)

\* The daemon runs the next step of the outline as soon as the awaited child
\* has terminated, and every submitted workflow and calculation eventually
\* terminates.
FairSpec == Spec /\ WF_vars(Next)

\* a constrained batch did not complete: its workflow raised or was killed
BatchIncomplete == constrained_wc.state = "excepted"

\* ceil(a / b)
CeilDiv(a, b) == (a + b - 1) \div b

\* C27: for Nmax >= 1 and N >= 1, unless the generator raises or a batch
\* does not complete, the run eventually ends (budget exhausted, all-failed or
\* AFM failure), and it never submits more than ceil(Nmax / N) constrained
\* generations.
C27_RunTerminates ==
    /\ (inputs.Nmax >= 1 /\ inputs.N >= 1) =>
           <>(pc = "finished" \/ ProposalFailed \/ BatchIncomplete)
    /\ []((inputs.Nmax >= 1 /\ inputs.N >= 1) =>
              Len(submitted) <= CeilDiv(inputs.Nmax, inputs.N))

\* a run that exhausted its budget in ceil(Nmax / N) = 3 generations
C27_Witness ==
    /\ pc = "finished"
    /\ exit_status = 0
    /\ ~ProposalFailed
    /\ ~BatchIncomplete
    /\ inputs.N = 2
    /\ inputs.Nmax = 5
    /\ Len(submitted) = 3
    /\ ctx.generation = CeilDiv(inputs.Nmax, inputs.N)

\* the sum of n_calculations over the constrained records 1..g
RECURSIVE CalculationsThrough(_, _)
CalculationsThrough(generation_results, g) ==
    IF g = 0 THEN 0
    ELSE generation_results[g].n_calculations + CalculationsThrough(generation_results, g - 1)

\* C28: at every evaluation of the loop condition the generation history has
\* the keys 0..generation, record 0 is the AFM record and the others are
\* constrained records with n_successful + n_failed = n_calculations,
\* 1 <= n_successful and n_calculations <= N, and N_cumulative is the sum of
\* their n_calculations and the length of all_calculation_pks.
C28_LoopInvariant ==
    pc = "should_continue_search" =>
        /\ DOMAIN ctx.generation_results = 0..ctx.generation
        /\ ctx.generation_results[0].type = "afm"
        /\ \A g \in 1..ctx.generation :
              LET rec == ctx.generation_results[g]
              IN /\ rec.type = "constrained"
                 /\ rec.n_successful + rec.n_failed = rec.n_calculations
                 /\ 1 <= rec.n_successful
                 /\ rec.n_calculations <= inputs.N
        /\ ctx.N_cumulative = CalculationsThrough(ctx.generation_results, ctx.generation)
        /\ ctx.N_cumulative = Len(ctx.all_calculation_pks)

\* the loop condition is evaluated after two generations, one with a failure
C28_Witness ==
    /\ pc = "should_continue_search"
    /\ ctx.generation = 2
    /\ ctx.generation_results[1].n_failed = 1
    /\ ctx.generation_results[1].n_successful = 2
    /\ ctx.generation_results[2].n_calculations = 3
    /\ ctx.N_cumulative = 6

AFMFailureProcessed ==
    /\ afm_wc.state = "excepted"
    /\ pc # "process_afm_results"

\* C29: if the AFM workflow does not finish successfully, the run ends with
\* ERROR_AFM_SEARCH_FAILED; the search state is not initialised, the generator
\* is not called and no constrained batch is submitted.
C29_AFMFailureEndsRun ==
    AFMFailureProcessed =>
        /\ pc = "finished"
        /\ exit_status = ERROR_AFM_SEARCH_FAILED
        /\ ctx = CtxUnset
        /\ calls = <<>>
        /\ submitted = <<>>
        /\ constrained_wc = NoChild
        /\ \A pk \in 1..Len(nodes) : nodes[pk].role = "occupations" /\ nodes[pk].gen = 0
        /\ ~outputs.attached

\* the AFM workflow failed and process_afm_results has returned the exit code
C29_Witness ==
    /\ afm_wc.state = "excepted"
    /\ pc = "finished"
    /\ exit_status = ERROR_AFM_SEARCH_FAILED
    /\ inputs.N = 2
    /\ inputs.Nmax = 3

\* the source entries of the proposals submitted in the k-th batch, in order
SourceEntries(k) ==
    [i \in 1..Len(submitted[k].occupation_matrices_list) |->
        submitted[k].occupation_matrices_list[i].entry]

\* C30: in read mode the source is consumed strictly in order across the run:
\* every entry submitted in a later generation comes after every entry
\* submitted in an earlier one, so no entry is submitted twice.
C30_ReadSourceConsumedOnce ==
    inputs.proposal_mode = "read" =>
        \A k1 \in 1..Len(submitted), k2 \in 1..Len(submitted) :
            k1 < k2 =>
                \A i \in 1..Len(SourceEntries(k1)), j \in 1..Len(SourceEntries(k2)) :
                    SourceEntries(k1)[i] < SourceEntries(k2)[j]

====
